---- MODULE Spec2Model ----
(***************************************************************************)
(* Model of the LLM orchestration layer of reference-formatter:            *)
(* LLMClientService (src/src/services/llm-client-service.ts), the retry    *)
(* client around an ILLMProvider.                                          *)
(*                                                                         *)
(* Strings that the code inspects or builds (error messages) are modelled  *)
(* as sequences of one-character strings, so that the case-insensitive     *)
(* pattern tests and the message concatenation are computed, not assumed.  *)
(***************************************************************************)
EXTENDS Integers, Sequences, FiniteSets, TLC

(***************************************************************************)
(* Bounds of the model.                                                    *)
(***************************************************************************)
\* largest attempt budget (options.maxRetries) a caller passes
MaxBudget == 3

\* the calls that may be in flight on the one shared client
CallIds == {1, 2}

\* largest attempt number handed to calculateRetryDelay
MaxAttemptArg == 6

(***************************************************************************)
(* Text.                                                                   *)
(***************************************************************************)
UpperChars == <<"A", "B", "C", "D", "E", "F", "G", "H", "I", "J", "K", "L", "M", "N", "O", "P", "Q", "R", "S", "T", "U", "V", "W", "X", "Y", "Z">>

LowerChars == <<"a", "b", "c", "d", "e", "f", "g", "h", "i", "j", "k", "l", "m", "n", "o", "p", "q", "r", "s", "t", "u", "v", "w", "x", "y", "z">>

\* the /i flag of the patterns: letters compare without regard to case
ToLower(ch) ==
  IF \E i \in 1..Len(UpperChars) : UpperChars[i] = ch
  THEN LowerChars[CHOOSE i \in 1..Len(UpperChars) : UpperChars[i] = ch]
  ELSE ch

\* pattern.test(message) for a literal pattern with the /i flag
RegexTest(pattern, message) ==
  \E i \in 1..(Len(message) - Len(pattern) + 1) :
    \A j \in 1..Len(pattern) : ToLower(message[i + j - 1]) = ToLower(pattern[j])

InvalidApiKeyMsg == <<"I", "n", "v", "a", "l", "i", "d", " ", "A", "P", "I", " ", "k", "e", "y">>

InvalidRequestPrefix == <<"I", "n", "v", "a", "l", "i", "d", " ", "r", "e", "q", "u", "e", "s", "t", ":", " ">>

ProviderRequiredMsg == <<"V", "a", "l", "i", "d", " ", "L", "L", "M", " ", "p", "r", "o", "v", "i", "d", "e", "r", " ", "i", "s", " ", "r", "e", "q", "u", "i", "r", "e", "d">>

UndefinedStr == <<"u", "n", "d", "e", "f", "i", "n", "e", "d">>

ObjectStr == <<"[", "o", "b", "j", "e", "c", "t", " ", "O", "b", "j", "e", "c", "t", "]">>

\* messages a vendor error may carry
MsgEmpty == <<>>

MsgBad == <<"B", "a", "d">>

MsgTimeoutUpper == <<"T", "I", "M", "E", "O", "U", "T">>

MsgRateLimit == <<"R", "a", "t", "e", " ", "L", "i", "m", "i", "t">>

MsgBusy == <<"i", "s", " ", "b", "u", "s", "y">>

MsgTryAgain == <<"T", "r", "y", " ", "A", "g", "a", "i", "n">>

MsgRateNoSpace == <<"r", "a", "t", "e", "l", "i", "m", "i", "t">>

Messages == {MsgEmpty, MsgBad, MsgTimeoutUpper, MsgRateLimit, MsgBusy, MsgTryAgain, MsgRateNoSpace}

(***************************************************************************)
(* Thrown values.  kind "Error" is an instance of Error, kinds             *)
(* "SyntaxError" and "TypeError" instances of these subclasses of Error,   *)
(* kind "APIError" an instance of Error whose name is "APIError",          *)
(* kind "object" a plain object that is no Error, kind "undefined" the     *)
(* value undefined.                                                        *)
(* status NoStatus is a missing (falsy) status.  id tells error objects    *)
(* apart: the provider's k-th invocation throws the object with id k, an   *)
(* error made by `new Error(...)` in the client has id FreshId.            *)
(***************************************************************************)
NoStatus == 0

FreshId == 0

Statuses == {NoStatus, 200, 400, 401, 429, 500, 503, 504}

Causes == {"none", "cause1", "cause2"}

MkThrown(kind, status, message, cause, id) ==
  [kind |-> kind, status |-> status, message |-> message, originalError |-> cause, id |-> id]

UndefinedValue == MkThrown("undefined", NoStatus, MsgEmpty, "none", FreshId)

NewError(message) == MkThrown("Error", NoStatus, message, "none", FreshId)

\* error instanceof Error
IsErrorInstance(error) == error.kind \in {"Error", "SyntaxError", "TypeError", "APIError"}

\* String(value) for a value that is not an Error
String(value) == IF value.kind = "undefined" THEN UndefinedStr ELSE ObjectStr

\* mutation: 504 is missing from the list
retryableStatuses_No504 == {429, 503}

\* mutation: 400 is on the list
retryableStatuses_With400 == {400, 429, 503, 504}

retryableStatuses == {429, 503, 504}

PatTimeout == <<"t", "i", "m", "e", "o", "u", "t">>

PatRateLimit == <<"r", "a", "t", "e", " ", "l", "i", "m", "i", "t">>

PatBusy == <<"b", "u", "s", "y">>

PatTryAgain == <<"t", "r", "y", " ", "a", "g", "a", "i", "n">>

retryableMessages == {PatTimeout, PatRateLimit, PatBusy, PatTryAgain}

MatchesRetryableMessage(message) ==
  \E pattern \in retryableMessages : RegexTest(pattern, message)

shouldRetry(error) ==
  IF IsErrorInstance(error)
  THEN \/ error.status # NoStatus /\ error.status \in retryableStatuses
       \/ error.message # MsgEmpty /\ MatchesRetryableMessage(error.message)
  ELSE FALSE

\* mutation: the 400 branch returns the message without the prefix
normalizeError_NoPrefix(error) ==
  IF IsErrorInstance(error)
  THEN IF error.status = 401 THEN NewError(InvalidApiKeyMsg)
       ELSE IF error.status = 400 THEN NewError(error.message)
       ELSE error
  ELSE NewError(String(error))

\* mutation: the 401 branch keeps the vendor's message
normalizeError_Echo401(error) ==
  IF IsErrorInstance(error)
  THEN IF error.status = 401 THEN NewError(InvalidApiKeyMsg \o error.message)
       ELSE IF error.status = 400 THEN NewError(InvalidRequestPrefix \o error.message)
       ELSE error
  ELSE NewError(String(error))

normalizeError(error) ==
  IF IsErrorInstance(error)
  THEN IF error.status = 401 THEN NewError(InvalidApiKeyMsg)
       ELSE IF error.status = 400 THEN NewError(InvalidRequestPrefix \o error.message)
       ELSE error
  ELSE NewError(String(error))

(***************************************************************************)
(* Options.  A key of the caller's options object is absent, present with  *)
(* the value undefined, or present with a number.                          *)
(***************************************************************************)
OptAbsent == [tag |-> "absent", n |-> 0]

OptUndefined == [tag |-> "undefined", n |-> 0]

NaN == [tag |-> "nan", n |-> 0]

Num(n) == [tag |-> "num", n |-> n]

DefaultMaxRetries == 1

DefaultRetryDelay == 1000

MaxDelay == 30000

JitterRange == 1000

\* defaultOptions = { maxRetries: options.maxRetries ?? 1,
\*                    retryDelay: options.retryDelay || 1000, ...options }
\* the spread copies every key that is present, the value undefined included
\* mutation: three attempts by default
MergeOptions_DefaultThree(options) ==
  [maxRetries |-> IF options.maxRetries.tag = "absent"
                  THEN Num(3) ELSE options.maxRetries,
   retryDelay |-> IF options.retryDelay.tag = "absent"
                  THEN Num(DefaultRetryDelay) ELSE options.retryDelay,
   returnFullResponse |-> options.returnFullResponse]

\* defaultOptions as built at lines 41-45
MergeOptions(options) ==
  [maxRetries |-> IF options.maxRetries.tag = "absent"
                  THEN Num(DefaultMaxRetries) ELSE options.maxRetries,
   retryDelay |-> IF options.retryDelay.tag = "absent"
                  THEN Num(DefaultRetryDelay) ELSE options.retryDelay,
   returnFullResponse |-> options.returnFullResponse]

\* mutation: the loop condition taken strictly
LoopCond_Strict(attempt, maxRetries) == maxRetries.tag = "num" /\ attempt < maxRetries.n

\* attempt <= defaultOptions.maxRetries (false when maxRetries is undefined)
LoopCond(attempt, maxRetries) == maxRetries.tag = "num" /\ attempt <= maxRetries.n

\* mutation: a retry is also scheduled after the last allowed attempt
IsBeforeLast_Inclusive(attempt, maxRetries) == maxRetries.tag = "num" /\ attempt <= maxRetries.n

\* attempt < defaultOptions.maxRetries
IsBeforeLast(attempt, maxRetries) == maxRetries.tag = "num" /\ attempt < maxRetries.n

\* attempt === defaultOptions.maxRetries
IsLast(attempt, maxRetries) == maxRetries.tag = "num" /\ attempt = maxRetries.n

Min(a, b) == IF a <= b THEN a ELSE b

calculateRetryDelay_Linear(attempt, baseDelay, jitter) ==
  IF baseDelay.tag = "num"
  THEN Num(Min(baseDelay.n * attempt + jitter, MaxDelay))
  ELSE NaN

\* mutation: the attempt number is not used
calculateRetryDelay_Flat(attempt, baseDelay, jitter) ==
  IF baseDelay.tag = "num"
  THEN Num(Min(baseDelay.n + jitter, MaxDelay))
  ELSE NaN

\* jitter is the value of Math.random() * 1000
calculateRetryDelay(attempt, baseDelay, jitter) ==
  IF baseDelay.tag = "num"
  THEN Num(Min(baseDelay.n * 2 ^ (attempt - 1) + jitter, MaxDelay))
  ELSE NaN

(***************************************************************************)
(* Provider responses and results of a call.                               *)
(***************************************************************************)
MkResponse(content, usage, rawResponse) ==
  [content |-> content, usage |-> usage, rawResponse |-> rawResponse]

NoResponse == MkResponse("", "undefined", "undefined")

NoResult == [kind |-> "none", content |-> "", usage |-> "undefined", rawResponse |-> "undefined"]

ReturnValue_AlwaysContent(response, returnFullResponse) ==
  [kind |-> "content", content |-> response.content, usage |-> "undefined",
   rawResponse |-> "undefined"]

\* the value generateCompletion returns for a provider response
ReturnValue(response, returnFullResponse) ==
  IF returnFullResponse
  THEN [kind |-> "full", content |-> response.content, usage |-> response.usage,
        rawResponse |-> response.rawResponse]
  ELSE [kind |-> "content", content |-> response.content, usage |-> "undefined",
        rawResponse |-> "undefined"]

\* one provider invocation as the call saw it
OkOutcome(response) == [ok |-> TRUE, response |-> response, error |-> UndefinedValue]

FailOutcome(error) == [ok |-> FALSE, response |-> NoResponse, error |-> error]

(***************************************************************************)
(* State.  calls[c] is the activation of generateCompletion for call c:    *)
(* its position, its locals (defaultOptions, attempt, lastError, delay)    *)
(* and what it did so far (provider invocations, sleeps, outcomes seen).   *)
(* fnArg, fnRetry and fnNorm hold an argument and the values shouldRetry   *)
(* and normalizeError computed for it; delayIn and delayOut the arguments  *)
(* and the value of calculateRetryDelay.                                   *)
(* parser holds the three fields of the Parser, setLog the latest argument *)
(* given to each of its setters (at first, to its constructor), getterOut  *)
(* what the latest getter call returned, and parses the activations of     *)
(* Parser.parse; openai is the outcome of constructing an OpenAIProvider   *)
(* and the vendor calls made through it; svc is the LLMClientService that  *)
(* holds its provider, whose calls are activations in calls; http is the   *)
(* POST /entries request in progress and the responses sent so far.        *)
(***************************************************************************)
VARIABLES calls, fnArg, fnRetry, fnNorm, delayIn, delayOut,
          parser, setLog, getterOut, parses, openai, svc, http

vars == <<calls, fnArg, fnRetry, fnNorm, delayIn, delayOut,
          parser, setLog, getterOut, parses, openai, svc, http>>

parserVars == <<parser, setLog, getterOut, parses>>

\* the variables the steps of a client call leave alone
nonClientVars ==
  <<fnArg, fnRetry, fnNorm, delayIn, delayOut, parserVars, openai, svc, http>>

NoOptions == [maxRetries |-> OptAbsent, retryDelay |-> OptAbsent, returnFullResponse |-> FALSE]

\* mutation: the request carries the defaults alone, not the caller's keys
MkRequest_DefaultsOnly(systemPrompt, userPrompt, options) ==
  [systemPrompt |-> systemPrompt, userPrompt |-> userPrompt,
   options |-> [options EXCEPT !.maxRetries = Num(DefaultMaxRetries),
                               !.retryDelay = Num(DefaultRetryDelay)]]

\* the arguments of provider.generateCompletion
MkRequest(systemPrompt, userPrompt, options) ==
  [systemPrompt |-> systemPrompt, userPrompt |-> userPrompt, options |-> options]

IdleFrame ==
  [pc |-> "idle", provider |-> "valid", systemPrompt |-> "", userPrompt |-> "",
   args |-> NoOptions, requests |-> <<>>,
   options |-> [maxRetries |-> Num(DefaultMaxRetries), retryDelay |-> Num(DefaultRetryDelay),
                returnFullResponse |-> FALSE],
   attempt |-> 0, invocations |-> 0, sleeps |-> 0, delay |-> Num(0),
   lastError |-> UndefinedValue, outcomes |-> <<>>,
   result |-> NoResult, raised |-> UndefinedValue]

\* mutation: the loop condition is not tested before the provider is invoked
LoopHead_NoCondition(frame, attempt) ==
  [frame EXCEPT !.pc = "awaitProvider", !.attempt = attempt,
                !.invocations = @ + 1,
                !.requests = Append(@, MkRequest(frame.systemPrompt, frame.userPrompt,
                                                 frame.options))]

\* the head of the for loop, entered with the given attempt number: either
\* the provider is invoked, or the loop is over and line 96 raises
LoopHead(frame, attempt) ==
  IF LoopCond(attempt, frame.options.maxRetries)
  THEN [frame EXCEPT !.pc = "awaitProvider", !.attempt = attempt,
                     !.invocations = @ + 1,
                     !.requests = Append(@, MkRequest(frame.systemPrompt, frame.userPrompt,
                                                      frame.options))]
  ELSE [frame EXCEPT !.pc = "raised", !.attempt = attempt,
                     !.raised = normalizeError(frame.lastError)]

\* mutation: only the last attempt raises; a non-retryable error falls through
\* to the next iteration
CatchBlock_OnlyLastThrows(frame, error, jitter) ==
  LET caught == [frame EXCEPT !.lastError = error,
                              !.outcomes = Append(@, FailOutcome(error))]
  IN IF shouldRetry(error) /\ IsBeforeLast(frame.attempt, frame.options.maxRetries)
     THEN [caught EXCEPT !.pc = "sleeping", !.sleeps = @ + 1,
                         !.delay = calculateRetryDelay(frame.attempt,
                                                       frame.options.retryDelay, jitter)]
     ELSE IF IsLast(frame.attempt, frame.options.maxRetries)
          THEN [caught EXCEPT !.pc = "raised", !.raised = normalizeError(caught.lastError)]
          ELSE LoopHead(caught, frame.attempt + 1)

\* mutation: shouldRetry is not consulted, every error is retried while
\* attempts remain
CatchBlock_RetriesEverything(frame, error, jitter) ==
  LET caught == [frame EXCEPT !.lastError = error,
                              !.outcomes = Append(@, FailOutcome(error))]
  IN IF IsBeforeLast(frame.attempt, frame.options.maxRetries)
     THEN [caught EXCEPT !.pc = "sleeping", !.sleeps = @ + 1,
                         !.delay = calculateRetryDelay(frame.attempt,
                                                       frame.options.retryDelay, jitter)]
     ELSE [caught EXCEPT !.pc = "raised", !.raised = normalizeError(caught.lastError)]

\* mutation: lastError is not assigned in the catch block, so the error of
\* an earlier attempt (or undefined) is normalized and raised
CatchBlock_StaleLastError(frame, error, jitter) ==
  LET caught == [frame EXCEPT !.outcomes = Append(@, FailOutcome(error))]
  IN IF shouldRetry(error) /\ IsBeforeLast(frame.attempt, frame.options.maxRetries)
     THEN [caught EXCEPT !.pc = "sleeping", !.sleeps = @ + 1, !.lastError = error,
                         !.delay = calculateRetryDelay(frame.attempt,
                                                       frame.options.retryDelay, jitter)]
     ELSE IF IsLast(frame.attempt, frame.options.maxRetries) \/ ~shouldRetry(error)
          THEN [caught EXCEPT !.pc = "raised", !.raised = normalizeError(caught.lastError)]
          ELSE LoopHead(caught, frame.attempt + 1)

\* the catch block for the error the provider raised
CatchBlock(frame, error, jitter) ==
  LET caught == [frame EXCEPT !.lastError = error,
                              !.outcomes = Append(@, FailOutcome(error))]
  IN IF shouldRetry(error) /\ IsBeforeLast(frame.attempt, frame.options.maxRetries)
     THEN [caught EXCEPT !.pc = "sleeping", !.sleeps = @ + 1,
                         !.delay = calculateRetryDelay(frame.attempt,
                                                       frame.options.retryDelay, jitter)]
     ELSE IF IsLast(frame.attempt, frame.options.maxRetries) \/ ~shouldRetry(error)
          THEN [caught EXCEPT !.pc = "raised", !.raised = normalizeError(caught.lastError)]
          ELSE LoopHead(caught, frame.attempt + 1)

\* mutation: only `!provider` is tested
IsValidProvider_TruthyOnly(provider) == provider # "null"

\* the providers with a callable generateCompletion
ValidProviders == {"valid", "valid2"}

\* provider && typeof provider.generateCompletion === "function"
IsValidProvider(provider) == provider \in ValidProviders

\* the activation of generateCompletion(provider, systemPrompt, userPrompt,
\* options) when it reaches its first await, or raised before
EnterCall(provider, systemPrompt, userPrompt, options) ==
  LET entered == [IdleFrame EXCEPT !.provider = provider, !.args = options,
                                   !.systemPrompt = systemPrompt,
                                   !.userPrompt = userPrompt]
  IN IF ~IsValidProvider(provider)
     THEN [entered EXCEPT !.pc = "raised", !.raised = NewError(ProviderRequiredMsg)]
     ELSE LoopHead([entered EXCEPT !.options = MergeOptions(options)], 1)

\* mutation: the backoff sleep is a busy wait, no call starts during it
generateCompletion_BlockingSleep(c, provider, systemPrompt, userPrompt, options) ==
  /\ calls[c].pc \in {"idle", "returned", "raised"}
  /\ \A d \in CallIds : calls[d].pc # "sleeping"
  /\ calls' = [calls EXCEPT ![c] = EnterCall(provider, systemPrompt, userPrompt, options)]
  /\ UNCHANGED nonClientVars

\* generateCompletion(provider, systemPrompt, userPrompt, options) up to its
\* first await
generateCompletion(c, provider, systemPrompt, userPrompt, options) ==
  /\ calls[c].pc \in {"idle", "returned", "raised"}
  /\ calls' = [calls EXCEPT ![c] = EnterCall(provider, systemPrompt, userPrompt, options)]
  /\ UNCHANGED nonClientVars

\* lines 59-71: the provider's response is turned into the return value
SuccessPath(frame, response) ==
  [frame EXCEPT !.pc = "returned",
                !.outcomes = Append(@, OkOutcome(response)),
                !.result = ReturnValue(response, frame.options.returnFullResponse)]

\* await provider.generateCompletion(...) resolves with a response
ProviderResolves(c, response) ==
  /\ calls[c].pc = "awaitProvider"
  /\ calls' = [calls EXCEPT ![c] = SuccessPath(@, response)]
  /\ UNCHANGED nonClientVars

\* await provider.generateCompletion(...) rejects: the catch block runs
ProviderRejects(c, thrown, jitter) ==
  /\ calls[c].pc = "awaitProvider"
  /\ calls' = [calls EXCEPT ![c] =
       CatchBlock(@, [thrown EXCEPT !.id = calls[c].invocations], jitter)]
  /\ UNCHANGED nonClientVars

\* mutation: the loop counter is a field of the client shared by its calls
TimerFires_SharedAttempt(c) ==
  /\ calls[c].pc = "sleeping"
  /\ LET shared == CHOOSE a \in {calls[d].attempt : d \in CallIds} :
                     \A d \in CallIds : calls[d].attempt <= a
     IN calls' = [calls EXCEPT ![c] = LoopHead(@, shared + 1)]
  /\ UNCHANGED nonClientVars

\* mutation: the loop counter starts again at 1 after a sleep
TimerFires_Restarts(c) ==
  /\ calls[c].pc = "sleeping"
  /\ calls' = [calls EXCEPT ![c] = LoopHead(@, 1)]
  /\ UNCHANGED nonClientVars

\* the setTimeout of the backoff sleep fires: continue with the next attempt
TimerFires(c) ==
  /\ calls[c].pc = "sleeping"
  /\ calls' = [calls EXCEPT ![c] = LoopHead(@, calls[c].attempt + 1)]
  /\ UNCHANGED nonClientVars

(***************************************************************************)
(* JSON.parse, for the texts the model's providers return: an object of    *)
(* string members, or a string.  A member given twice keeps its last       *)
(* value.                                                                  *)
(***************************************************************************)
JsonFail == [ok |-> FALSE, type |-> "none", members |-> {}, str |-> <<>>]

JsonObject(members) == [ok |-> TRUE, type |-> "object", members |-> members, str |-> <<>>]

JsonString(str) == [ok |-> TRUE, type |-> "string", members |-> {}, str |-> str]

\* the position of the first double quote at or after i, 0 when there is none
RECURSIVE ClosingQuote(_, _)
ClosingQuote(text, i) ==
  IF i > Len(text) THEN 0
  ELSE IF text[i] = "\"" THEN i
  ELSE ClosingQuote(text, i + 1)

\* a string literal starting at position i
ScanString(text, i) ==
  IF i <= Len(text) /\ text[i] = "\"" /\ ClosingQuote(text, i + 1) # 0
  THEN [ok |-> TRUE, str |-> SubSeq(text, i + 1, ClosingQuote(text, i + 1) - 1),
        next |-> ClosingQuote(text, i + 1) + 1]
  ELSE [ok |-> FALSE, str |-> <<>>, next |-> i]

\* the members of an object from position i on, up to the closing brace
\* that ends the text
RECURSIVE ScanMembers(_, _, _)
ScanMembers(text, i, members) ==
  LET key == ScanString(text, i)
      val == ScanString(text, key.next + 1)
      seen == {m \in members : m[1] # key.str} \cup {<<key.str, val.str>>}
  IN IF ~key.ok \/ key.next > Len(text) \/ text[key.next] # ":" \/ ~val.ok
     THEN JsonFail
     ELSE IF val.next < Len(text) /\ text[val.next] = ","
     THEN ScanMembers(text, val.next + 1, seen)
     ELSE IF val.next = Len(text) /\ text[val.next] = "}"
     THEN JsonObject(seen)
     ELSE JsonFail

JsonParse(text) ==
  IF text = <<"{", "}">> THEN JsonObject({})
  ELSE IF Len(text) >= 1 /\ text[1] = "{" THEN ScanMembers(text, 2, {})
  ELSE IF ScanString(text, 1).ok /\ ScanString(text, 1).next = Len(text) + 1
  THEN JsonString(ScanString(text, 1).str)
  ELSE JsonFail

UnexpectedTokenMsg == <<"U", "n", "e", "x", "p", "e", "c", "t", "e", "d">>

CannotReadMsg == <<"C", "a", "n", "n", "o", "t", " ", "r", "e", "a", "d">>

\* the SyntaxError of JSON.parse
JsonSyntaxError == MkThrown("SyntaxError", NoStatus, UnexpectedTokenMsg, "none", FreshId)

\* the TypeError of reading a property of undefined
PropertyTypeError == MkThrown("TypeError", NoStatus, CannotReadMsg, "none", FreshId)

(***************************************************************************)
(* The Parser: its fields and the activations of parse.                    *)
(***************************************************************************)
\* the calls of parse that may be in flight
ParseIds == {1}

\* what parse handed to generateCompletion, and to which client
MkPassed(client, provider, systemPrompt, userPrompt, options) ==
  [client |-> client, provider |-> provider, systemPrompt |-> systemPrompt,
   userPrompt |-> userPrompt, options |-> options]

NoPassed == MkPassed("none", "none", "", "", NoOptions)

\* what the awaited generateCompletion settled with
NoGot == [settled |-> FALSE, ok |-> FALSE, result |-> NoResult, error |-> UndefinedValue]

GotResult(result) == [settled |-> TRUE, ok |-> TRUE, result |-> result, error |-> UndefinedValue]

GotError(error) == [settled |-> TRUE, ok |-> FALSE, result |-> NoResult, error |-> error]

IdleParse ==
  [pc |-> "idle", input |-> "", passed |-> NoPassed, clientCalls |-> 0, got |-> NoGot,
   value |-> JsonFail, raised |-> UndefinedValue]

NoGetter == [name |-> "none", value |-> "none", latest |-> "none"]

\* new Parser(clientA, valid, logger, promptA)
ParserIdle ==
  /\ parser = [systemPrompt |-> "promptA", llmProvider |-> "valid",
               llmClientService |-> "real"]
  /\ setLog = [systemPrompt |-> "promptA", llmProvider |-> "valid",
               llmClientService |-> "real"]
  /\ getterOut = NoGetter
  /\ parses = [p \in CallIds |-> IdleParse]

(***************************************************************************)
(* The OpenAIProvider: its constructor and the vendor call made through    *)
(* the instance.  Fractions are counted in hundredths (0.7 is 70).         *)
(***************************************************************************)
\* largest number of vendor calls made through one provider instance
MaxVendorCalls == 2

ApiKeyRequiredMsg ==
  <<"O", "p", "e", "n", "A", "I", " ", "A", "P", "I", " ", "k", "e", "y",
    " ", "i", "s", " ", "r", "e", "q", "u", "i", "r", "e", "d">>

\* the apiKey argument: null, undefined or a string
KeyNull == [tag |-> "null", text |-> ""]

KeyUndefined == [tag |-> "undefined", text |-> ""]

KeyString(text) == [tag |-> "string", text |-> text]

\* mutation: only null and undefined are refused
IsMissingKey_NullishOnly(apiKey) == apiKey.tag # "string"

\* !apiKey
IsMissingKey(apiKey) == apiKey.tag # "string" \/ apiKey.text = ""

DefaultTimeout == 30000

DefaultVendorRetries == 3

DefaultModel == "gpt-4o-mini"

DefaultTemperature == 70

DefaultMaxTokens == 256

DefaultTopP == 100

DefaultFrequencyPenalty == 0

DefaultPresencePenalty == 0

\* value || fallback for a number: undefined, absent and 0 give the fallback
OrNumber(value, fallback) ==
  IF value.tag = "num" /\ value.n # 0 THEN value.n ELSE fallback

\* value || fallback for a string: undefined, absent and "" give the fallback
OrString(value, fallback) == IF value \in {"absent", ""} THEN fallback ELSE value

NoVendorClient == [apiKey |-> KeyUndefined, timeout |-> 0, maxRetries |-> 0]

NoProviderConfig ==
  [model |-> "", temperature |-> 0, maxTokens |-> 0, topP |-> 0,
   frequencyPenalty |-> 0, presencePenalty |-> 0]

\* new LLMProviderConfig({}): additionalParams is a set of <<key, value>>
NoConfigArg ==
  [model |-> "absent", temperature |-> OptAbsent, maxTokens |-> OptAbsent,
   topP |-> OptAbsent, frequencyPenalty |-> OptAbsent, presencePenalty |-> OptAbsent,
   timeout |-> OptAbsent, maxRetries |-> OptAbsent, additionalParams |-> {}]

\* { ...object, ...pairs }: the keys of the pairs are added or replaced
Spread(object, pairs) ==
  [key \in DOMAIN object \cup {pair[1] : pair \in pairs} |->
     IF \E pair \in pairs : pair[1] = key
     THEN (CHOOSE pair \in pairs : pair[1] = key)[2]
     ELSE object[key]]

\* options.params of one call: its own keys, and its additionalParams key
NoParams == [top |-> {}, additionalParams |-> {}]

NoVendorRequest ==
  [systemPrompt |-> "", userPrompt |-> "", body |-> NoProviderConfig]

\* one activation of OpenAIProvider.generateCompletion
NoInvocation ==
  [pc |-> "idle", paramsArg |-> NoParams, request |-> NoVendorRequest,
   networkCalls |-> 0, sdkRetries |-> 0, configBefore |-> NoProviderConfig,
   vendorError |-> UndefinedValue, thrown |-> UndefinedValue,
   attached |-> UndefinedValue, response |-> NoResponse]

NoProvider ==
  [pc |-> "none", apiKey |-> KeyUndefined, configArg |-> NoConfigArg,
   dispatchers |-> 0, vendorClients |-> 0, client |-> NoVendorClient,
   config |-> NoProviderConfig, raised |-> UndefinedValue, networkCalls |-> 0,
   invocation |-> NoInvocation]

\* no OpenAIProvider constructed yet
ProviderIdle == openai = NoProvider

\* new OpenAI({apiKey, timeout: config.timeout || 30000,
\*             maxRetries: config.maxRetries || 3, fetch})
NewVendorClient(apiKey, config) ==
  [apiKey |-> apiKey, timeout |-> OrNumber(config.timeout, DefaultTimeout),
   maxRetries |-> OrNumber(config.maxRetries, DefaultVendorRetries)]

\* this.config = { model: config.model || "gpt-4o-mini", ...,
\*                 ...config.additionalParams }
MergeProviderConfig(config) ==
  Spread([model |-> OrString(config.model, DefaultModel),
          temperature |-> OrNumber(config.temperature, DefaultTemperature),
          maxTokens |-> OrNumber(config.maxTokens, DefaultMaxTokens),
          topP |-> OrNumber(config.topP, DefaultTopP),
          frequencyPenalty |-> OrNumber(config.frequencyPenalty, DefaultFrequencyPenalty),
          presencePenalty |-> OrNumber(config.presencePenalty, DefaultPresencePenalty)],
         config.additionalParams)

\* new OpenAIProvider(apiKey, config)
OpenAIProviderConstructor(apiKey, config) ==
  /\ openai.pc = "none"
  /\ openai' =
       IF IsMissingKey(apiKey)
       THEN [openai EXCEPT !.pc = "raised", !.apiKey = apiKey, !.configArg = config,
                           !.raised = NewError(ApiKeyRequiredMsg)]
       ELSE [openai EXCEPT !.pc = "constructed", !.apiKey = apiKey, !.configArg = config,
                           !.dispatchers = @ + 1,
                           !.vendorClients = @ + 1,
                           !.client = NewVendorClient(apiKey, config),
                           !.config = MergeProviderConfig(config)]
  /\ UNCHANGED <<calls, svc, http, fnArg, fnRetry, fnNorm, delayIn, delayOut, parserVars>>

\* const params = { ...this.config, ...options.params }
MergeParams(config, paramsArg) == Spread(config, paramsArg.top)

\* the body of the vendor request, lines 82-96: the six named parameters
\* of params, then the keys of params.additionalParams
RequestBody(params, additionalParams) ==
  Spread([model |-> params.model, temperature |-> params.temperature,
          maxTokens |-> params.maxTokens, topP |-> params.topP,
          frequencyPenalty |-> params.frequencyPenalty,
          presencePenalty |-> params.presencePenalty],
         additionalParams)

\* this.client.chat.completions.create(request): the vendor client sends
\* the request over the network a first time
ChatCompletionsCreate(state, request) ==
  [state EXCEPT !.networkCalls = @ + 1,
                !.invocation.pc = "awaitVendor",
                !.invocation.request = request,
                !.invocation.networkCalls = 1]

\* OpenAIProvider.generateCompletion({systemPrompt, userPrompt, options})
\* up to its await
providerGenerateCompletion(systemPrompt, userPrompt, paramsArg) ==
  /\ openai.pc = "constructed"
  /\ openai.invocation.pc # "awaitVendor"
  /\ openai.networkCalls < MaxVendorCalls
  /\ openai' =
       ChatCompletionsCreate(
         [openai EXCEPT !.invocation = [NoInvocation EXCEPT !.paramsArg = paramsArg,
                                                            !.configBefore = openai.config]],
         [systemPrompt |-> systemPrompt, userPrompt |-> userPrompt,
          body |-> RequestBody(MergeParams(openai.config, paramsArg),
                               paramsArg.additionalParams)])
  /\ UNCHANGED <<calls, svc, http, fnArg, fnRetry, fnNorm, delayIn, delayOut, parserVars>>

\* the vendor answers: new ILLMResponse(content, usage, response)
VendorResponds(response) ==
  /\ openai.invocation.pc = "awaitVendor"
  /\ openai' = [openai EXCEPT !.invocation.pc = "returned",
                              !.invocation.response = response]
  /\ UNCHANGED <<calls, svc, http, fnArg, fnRetry, fnNorm, delayIn, delayOut, parserVars>>

\* the failures the vendor client retries by itself: connection errors
\* (kind "APIError" without status), 408, 409, 429 and 5xx
SdkRetries(error) ==
  /\ error.kind = "APIError"
  /\ error.status = NoStatus \/ error.status \in {408, 409, 429} \/ error.status >= 500

\* variant: the new error has a message of the provider's own
ProviderNormalizeError_OwnMessage(error) ==
  IF IsErrorInstance(error) /\ (error.kind = "APIError" \/ error.status # NoStatus)
  THEN [error |-> MkThrown("Error", error.status, MsgBad, "original", FreshId),
        attached |-> error]
  ELSE IF IsErrorInstance(error)
  THEN [error |-> error, attached |-> UndefinedValue]
  ELSE [error |-> NewError(String(error)), attached |-> UndefinedValue]

\* variant: the new error does not take over the status
ProviderNormalizeError_NoStatus(error) ==
  IF IsErrorInstance(error) /\ (error.kind = "APIError" \/ error.status # NoStatus)
  THEN [error |-> MkThrown("Error", NoStatus, error.message, "original", FreshId),
        attached |-> error]
  ELSE IF IsErrorInstance(error)
  THEN [error |-> error, attached |-> UndefinedValue]
  ELSE [error |-> NewError(String(error)), attached |-> UndefinedValue]

\* OpenAIProvider.normalizeError: the error raised, and the error attached
\* to it as originalError (undefined when none is)
ProviderNormalizeError(error) ==
  IF IsErrorInstance(error) /\ (error.kind = "APIError" \/ error.status # NoStatus)
  THEN [error |-> MkThrown("Error", error.status, error.message, "original", FreshId),
        attached |-> error]
  ELSE IF IsErrorInstance(error)
  THEN [error |-> error, attached |-> UndefinedValue]
  ELSE [error |-> NewError(String(error)), attached |-> UndefinedValue]

\* a network call of the pending request fails: the vendor client sends it
\* again while its maxRetries allows, otherwise create rejects and the
\* catch block of line 103 raises the normalized error
VendorFails(error) ==
  /\ openai.invocation.pc = "awaitVendor"
  /\ IF SdkRetries(error) /\ openai.invocation.sdkRetries < openai.client.maxRetries
     THEN /\ openai.networkCalls < MaxVendorCalls
          /\ openai' = [openai EXCEPT !.networkCalls = @ + 1,
                                      !.invocation.networkCalls = @ + 1,
                                      !.invocation.sdkRetries = @ + 1]
     ELSE openai' = [openai EXCEPT !.invocation.pc = "raised",
                                   !.invocation.vendorError = error,
                                   !.invocation.thrown = ProviderNormalizeError(error).error,
                                   !.invocation.attached =
                                     ProviderNormalizeError(error).attached]
  /\ UNCHANGED <<calls, svc, http, fnArg, fnRetry, fnNorm, delayIn, delayOut, parserVars>>

ApiKeys == {KeyNull, KeyUndefined, KeyString(""), KeyString("test-api-key")}

\* every parameter supplied, none of them 0
FullConfigArg ==
  [model |-> "gpt-4", temperature |-> Num(50), maxTokens |-> Num(512),
   topP |-> Num(90), frequencyPenalty |-> Num(50), presencePenalty |-> Num(50),
   timeout |-> Num(60000), maxRetries |-> Num(5), additionalParams |-> {}]

ProviderConfigs ==
  {NoConfigArg, FullConfigArg,
   [NoConfigArg EXCEPT !.temperature = Num(0)],
   [NoConfigArg EXCEPT !.maxTokens = Num(0)],
   [NoConfigArg EXCEPT !.topP = Num(0)],
   [FullConfigArg EXCEPT !.frequencyPenalty = Num(0), !.presencePenalty = Num(0)],
   [NoConfigArg EXCEPT !.maxRetries = Num(0)],
   [NoConfigArg EXCEPT !.maxRetries = Num(1)],
   [NoConfigArg EXCEPT !.additionalParams = {<<"logprobs", 1>>, <<"top_logprobs", 2>>}],
   [FullConfigArg EXCEPT !.maxRetries = Num(1),
                         !.additionalParams = {<<"logprobs", 1>>}]}

\* options.params of a call
ParamsArgs ==
  {NoParams,
   [top |-> {<<"temperature", 0>>}, additionalParams |-> {}],
   [top |-> {<<"model", "gpt-4-turbo">>, <<"maxTokens", 100>>}, additionalParams |-> {}],
   [top |-> {<<"logprobs", 0>>}, additionalParams |-> {}],
   [top |-> {}, additionalParams |-> {<<"seed", 7>>}]}

VendorResponses == {MkResponse("text1", "usage1", "raw1")}

\* what a network call to the vendor may fail with
VendorErrors ==
  {MkThrown("APIError", 400, MsgBad, "none", 1),
   MkThrown("APIError", 401, MsgBad, "none", 1),
   MkThrown("APIError", 429, MsgRateLimit, "none", 1),
   MkThrown("APIError", NoStatus, MsgBad, "none", 1),
   MkThrown("Error", 500, MsgBad, "none", 1),
   MkThrown("Error", 400, MsgBusy, "none", 1),
   MkThrown("Error", NoStatus, MsgTimeoutUpper, "none", 1),
   MkThrown("Error", NoStatus, MsgBad, "cause1", 1),
   MkThrown("SyntaxError", NoStatus, UnexpectedTokenMsg, "none", 1),
   MkThrown("TypeError", NoStatus, CannotReadMsg, "none", 1)}

(***************************************************************************)
(* Inputs.                                                                 *)
(***************************************************************************)
Providers == {"valid", "null", "noMethod"}

MaxRetriesOptions == {OptAbsent, OptUndefined} \cup {Num(n) : n \in 0..MaxBudget}

RetryDelayOptions == {OptAbsent, Num(100)}

Options ==
  [maxRetries : MaxRetriesOptions, retryDelay : RetryDelayOptions,
   returnFullResponse : BOOLEAN]

Responses == {MkResponse("text1", "usage1", "raw1"), MkResponse("text2", "undefined", "raw2")}

JitterValues == {0, JitterRange - 1}

\* what a provider may throw at the client
ProviderErrors ==
  {MkThrown("Error", 429, MsgBad, "none", FreshId),
   MkThrown("Error", NoStatus, MsgTimeoutUpper, "none", FreshId),
   MkThrown("Error", 400, MsgBad, "cause1", FreshId),
   MkThrown("Error", 400, MsgBusy, "cause1", FreshId),
   MkThrown("Error", 401, MsgBad, "cause1", FreshId),
   MkThrown("Error", 401, MsgTryAgain, "cause2", FreshId),
   MkThrown("Error", 500, MsgBad, "cause2", FreshId),
   MkThrown("Error", NoStatus, MsgRateNoSpace, "none", FreshId),
   MkThrown("object", 429, MsgBad, "none", FreshId),
   MkThrown("object", 401, MsgRateLimit, "none", FreshId)}

\* every thrown value shouldRetry and normalizeError are applied to
AllThrown ==
  {UndefinedValue} \cup
  {MkThrown(kind, status, message, cause, 1) :
     kind \in {"Error", "object"}, status \in Statuses,
     message \in Messages, cause \in Causes}

(***************************************************************************)
(* One call at a time on the client.                                       *)
(***************************************************************************)
\* no call in flight on the client
ClientIdle == calls = [c \in CallIds |-> IdleFrame]

\* nothing applied to shouldRetry and normalizeError
FnIdle ==
  /\ fnArg = UndefinedValue
  /\ fnRetry = "unset"
  /\ fnNorm = <<>>

\* nothing applied to calculateRetryDelay
DelayIdle ==
  /\ delayIn = [attempt |-> 1, baseDelay |-> Num(DefaultRetryDelay), jitter |-> 0]
  /\ delayOut = <<>>

\* largest number of setProvider calls on one client
MaxSetProvider == 2

\* the LLMClientService that holds its provider, before its constructor:
\* #provider, #systemPrompt, #defaultOptions, what the constructor or the
\* latest setProvider raised, the setProvider calls made (their number, the
\* latest argument, the number of those that returned), for each call the
\* providers it invoked and the number of setProvider calls that had
\* returned when it started
NoService ==
  [pc |-> "none", provider |-> "none", systemPrompt |-> "", defaultOptions |-> NoOptions,
   raised |-> UndefinedValue, sets |-> 0, setArg |-> "none", setsDone |-> 0,
   invoked |-> [c \in CallIds |-> <<>>], startedAt |-> [c \in CallIds |-> 0]]

ServiceIdle == svc = NoService

\* largest number of POST /entries requests
MaxRequests == 2

\* no request received yet
NoHttp ==
  [pc |-> "idle", entry |-> [tag |-> "undefined", text |-> <<>>],
   rawData |-> [tag |-> "undefined", text |-> <<>>], requests |-> 0, log |-> <<>>]

HttpIdle == http = NoHttp

Init ==
  /\ ClientIdle
  /\ FnIdle
  /\ DelayIdle
  /\ ParserIdle
  /\ ProviderIdle
  /\ ServiceIdle
  /\ HttpIdle

Next ==
  \/ \E provider \in Providers, options \in Options :
       generateCompletion(1, provider, "promptA", "input1", options)
  \/ \E response \in Responses : ProviderResolves(1, response)
  \/ \E thrown \in ProviderErrors, jitter \in JitterValues : ProviderRejects(1, thrown, jitter)
  \/ TimerFires(1)

Spec == Init /\ [][Next]_vars

\* every provider invocation settles and every backoff sleep ends
SpecLive ==
  /\ Init
  /\ [][Next]_vars
  /\ WF_vars((\E response \in Responses : ProviderResolves(1, response))
             \/ (\E thrown \in ProviderErrors, jitter \in JitterValues :
                   ProviderRejects(1, thrown, jitter)))
  /\ WF_vars(TimerFires(1))

(***************************************************************************)
(* One OpenAIProvider is constructed and used.                             *)
(***************************************************************************)
NextProvider ==
  \/ \E apiKey \in ApiKeys, config \in ProviderConfigs :
       OpenAIProviderConstructor(apiKey, config)
  \/ \E paramsArg \in ParamsArgs :
       providerGenerateCompletion("promptA", "input1", paramsArg)
  \/ \E response \in VendorResponses : VendorResponds(response)
  \/ \E error \in VendorErrors : VendorFails(error)

SpecProvider == Init /\ [][NextProvider]_vars

(***************************************************************************)
(* shouldRetry and normalizeError applied to one thrown value.             *)
(***************************************************************************)
ApplyShouldRetry ==
  /\ fnRetry = "unset"
  /\ fnRetry' = IF shouldRetry(fnArg) THEN "true" ELSE "false"
  /\ UNCHANGED <<calls, svc, http, fnArg, fnNorm, delayIn, delayOut, parserVars, openai>>

ApplyNormalizeError ==
  /\ fnNorm = <<>>
  /\ fnNorm' = <<normalizeError(fnArg)>>
  /\ UNCHANGED <<calls, svc, http, fnArg, fnRetry, delayIn, delayOut, parserVars, openai>>

InitFn ==
  /\ ClientIdle
  /\ fnArg \in AllThrown
  /\ fnRetry = "unset"
  /\ fnNorm = <<>>
  /\ DelayIdle
  /\ ParserIdle
  /\ ProviderIdle
  /\ ServiceIdle
  /\ HttpIdle

NextFn == ApplyShouldRetry \/ ApplyNormalizeError

SpecFn == InitFn /\ [][NextFn]_vars

(***************************************************************************)
(* The JavaScript build of the client (api/src/services): the default of   *)
(* maxRetries is 0, shouldRetry and normalizeError do not test for Error   *)
(* instances, and nothing follows the for loop.                            *)
(***************************************************************************)
DefaultMaxRetriesJs == 0

\* defaultOptions = { maxRetries: 0, retryDelay: options.retryDelay || 1000,
\*                    ...options }
MergeOptionsJs(options) ==
  [maxRetries |-> IF options.maxRetries.tag = "absent"
                  THEN Num(DefaultMaxRetriesJs) ELSE options.maxRetries,
   retryDelay |-> IF options.retryDelay.tag = "absent"
                  THEN Num(DefaultRetryDelay) ELSE options.retryDelay,
   returnFullResponse |-> options.returnFullResponse]

shouldRetryJs(error) ==
  \/ error.status # NoStatus /\ error.status \in retryableStatuses
  \/ error.message # MsgEmpty /\ MatchesRetryableMessage(error.message)

normalizeErrorJs(error) ==
  IF error.status = 401 THEN NewError(InvalidApiKeyMsg)
  ELSE IF error.status = 400 THEN NewError(InvalidRequestPrefix \o error.message)
  ELSE error

\* the value of a call whose body ran to its end without a return statement
UndefinedResult ==
  [kind |-> "undefined", content |-> "", usage |-> "undefined", rawResponse |-> "undefined"]

\* the head of the for loop: either the provider is invoked, or the loop is
\* over and the function ends at line 70 with no value
LoopHeadJs(frame, attempt) ==
  IF LoopCond(attempt, frame.options.maxRetries)
  THEN [frame EXCEPT !.pc = "awaitProvider", !.attempt = attempt,
                     !.invocations = @ + 1,
                     !.requests = Append(@, MkRequest(frame.systemPrompt, frame.userPrompt,
                                                      frame.options))]
  ELSE [frame EXCEPT !.pc = "returned", !.attempt = attempt, !.result = UndefinedResult]

\* the catch block; reading error.message of the value undefined at line 49
\* raises a TypeError out of the call
CatchBlockJs(frame, error, jitter) ==
  LET caught == [frame EXCEPT !.lastError = error,
                              !.outcomes = Append(@, FailOutcome(error))]
  IN IF error.kind = "undefined"
     THEN [caught EXCEPT !.pc = "raised",
                         !.raised = PropertyTypeError]
     ELSE IF shouldRetryJs(error) /\ IsBeforeLast(frame.attempt, frame.options.maxRetries)
     THEN [caught EXCEPT !.pc = "sleeping", !.sleeps = @ + 1,
                         !.delay = calculateRetryDelay(frame.attempt,
                                                       frame.options.retryDelay, jitter)]
     ELSE IF IsLast(frame.attempt, frame.options.maxRetries) \/ ~shouldRetryJs(error)
          THEN [caught EXCEPT !.pc = "raised", !.raised = normalizeErrorJs(caught.lastError)]
          ELSE LoopHeadJs(caught, frame.attempt + 1)

EnterCallJs(provider, systemPrompt, userPrompt, options) ==
  LET entered == [IdleFrame EXCEPT !.provider = provider, !.args = options,
                                   !.systemPrompt = systemPrompt,
                                   !.userPrompt = userPrompt]
  IN IF ~IsValidProvider(provider)
     THEN [entered EXCEPT !.pc = "raised", !.raised = NewError(ProviderRequiredMsg)]
     ELSE LoopHeadJs([entered EXCEPT !.options = MergeOptionsJs(options)], 1)

generateCompletionJs(c, provider, systemPrompt, userPrompt, options) ==
  /\ calls[c].pc \in {"idle", "returned", "raised"}
  /\ calls' = [calls EXCEPT ![c] = EnterCallJs(provider, systemPrompt, userPrompt, options)]
  /\ UNCHANGED nonClientVars

ProviderRejectsJs(c, thrown, jitter) ==
  /\ calls[c].pc = "awaitProvider"
  /\ calls' = [calls EXCEPT ![c] =
       CatchBlockJs(@, [thrown EXCEPT !.id = calls[c].invocations], jitter)]
  /\ UNCHANGED nonClientVars

TimerFiresJs(c) ==
  /\ calls[c].pc = "sleeping"
  /\ calls' = [calls EXCEPT ![c] = LoopHeadJs(@, calls[c].attempt + 1)]
  /\ UNCHANGED nonClientVars

NextJs ==
  \/ \E provider \in Providers, options \in Options :
       generateCompletionJs(1, provider, "promptA", "input1", options)
  \/ \E response \in Responses : ProviderResolves(1, response)
  \/ \E thrown \in ProviderErrors, jitter \in JitterValues : ProviderRejectsJs(1, thrown, jitter)
  \/ TimerFiresJs(1)

SpecJs == Init /\ [][NextJs]_vars

(***************************************************************************)
(* The LLMClientService that holds its provider and its system prompt.     *)
(***************************************************************************)
\* constructor(provider, systemPrompt, logger, options)
ServiceConstructor(provider, systemPrompt, options) ==
  /\ svc.pc = "none"
  /\ svc' = IF ~IsValidProvider(provider)
            THEN [svc EXCEPT !.pc = "raised", !.raised = NewError(ProviderRequiredMsg)]
            ELSE [svc EXCEPT !.pc = "constructed", !.provider = provider,
                             !.systemPrompt = systemPrompt,
                             !.defaultOptions = MergeOptionsJs(options)]
  /\ UNCHANGED <<calls, http, fnArg, fnRetry, fnNorm, delayIn, delayOut, parserVars, openai>>

\* mutation: the provider is assigned without the check
setProvider_Unchecked(provider) ==
  /\ svc.pc = "constructed"
  /\ svc.sets < MaxSetProvider
  /\ svc' = [svc EXCEPT !.sets = @ + 1, !.setArg = provider, !.provider = provider,
                        !.raised = UndefinedValue, !.setsDone = @ + 1]
  /\ UNCHANGED <<calls, http, fnArg, fnRetry, fnNorm, delayIn, delayOut, parserVars, openai>>

\* setProvider(provider)
setProvider(provider) ==
  /\ svc.pc = "constructed"
  /\ svc.sets < MaxSetProvider
  /\ svc' = IF ~IsValidProvider(provider)
            THEN [svc EXCEPT !.sets = @ + 1, !.setArg = provider,
                             !.raised = NewError(ProviderRequiredMsg)]
            ELSE [svc EXCEPT !.sets = @ + 1, !.setArg = provider, !.provider = provider,
                             !.raised = UndefinedValue, !.setsDone = @ + 1]
  /\ UNCHANGED <<calls, http, fnArg, fnRetry, fnNorm, delayIn, delayOut, parserVars, openai>>

\* mergedOptions = { ...this.#defaultOptions, ...options }
MergeCallOptions(defaults, options) ==
  [maxRetries |-> IF options.maxRetries.tag = "absent"
                  THEN defaults.maxRetries ELSE options.maxRetries,
   retryDelay |-> IF options.retryDelay.tag = "absent"
                  THEN defaults.retryDelay ELSE options.retryDelay,
   returnFullResponse |-> options.returnFullResponse \/ defaults.returnFullResponse]

\* the head of the for loop: this.#provider and this.#systemPrompt are read
\* when the attempt is made
ServiceLoopHead(frame, attempt) ==
  LoopHeadJs([frame EXCEPT !.provider = svc.provider,
                           !.systemPrompt = svc.systemPrompt], attempt)

\* the providers call c invoked, after its loop head ran
Invoked(c, frame) ==
  IF frame.pc = "awaitProvider"
  THEN [svc.invoked EXCEPT ![c] = Append(@, frame.provider)]
  ELSE svc.invoked

\* generateCompletion(userPrompt, options) up to its first await
ServiceGenerateCompletion(c, userPrompt, options) ==
  /\ svc.pc = "constructed"
  /\ calls[c].pc \in {"idle", "returned", "raised"}
  /\ LET entered == [IdleFrame EXCEPT !.args = options, !.userPrompt = userPrompt,
                                      !.options = MergeCallOptions(svc.defaultOptions,
                                                                   options)]
         frame == ServiceLoopHead(entered, 1)
     IN /\ calls' = [calls EXCEPT ![c] = frame]
        /\ svc' = [svc EXCEPT !.invoked[c] = IF frame.pc = "awaitProvider"
                                             THEN <<frame.provider>> ELSE <<>>,
                              !.startedAt[c] = svc.setsDone]
  /\ UNCHANGED <<http, fnArg, fnRetry, fnNorm, delayIn, delayOut, parserVars, openai>>

\* the setTimeout of the backoff sleep fires: the next attempt is made on
\* the provider the client holds now
ServiceTimerFires(c) ==
  /\ svc.pc = "constructed"
  /\ calls[c].pc = "sleeping"
  /\ LET frame == ServiceLoopHead(calls[c], calls[c].attempt + 1)
     IN /\ calls' = [calls EXCEPT ![c] = frame]
        /\ svc' = [svc EXCEPT !.invoked = Invoked(c, frame)]
  /\ UNCHANGED <<http, fnArg, fnRetry, fnNorm, delayIn, delayOut, parserVars, openai>>

ServiceOptions ==
  [maxRetries : {OptAbsent, Num(1), Num(2)}, retryDelay : {OptAbsent},
   returnFullResponse : {FALSE}]

ServiceErrors ==
  {MkThrown("Error", 429, MsgBad, "none", FreshId),
   MkThrown("Error", 500, MsgBad, "cause2", FreshId)}

NextService ==
  \/ \E provider \in Providers \cup ValidProviders, options \in ServiceOptions :
       ServiceConstructor(provider, "promptA", options)
  \/ \E provider \in Providers \cup ValidProviders : setProvider(provider)
  \/ \E options \in ServiceOptions : ServiceGenerateCompletion(1, "input1", options)
  \/ \E response \in Responses : ProviderResolves(1, response)
  \/ \E thrown \in ServiceErrors : ProviderRejectsJs(1, thrown, 0)
  \/ ServiceTimerFires(1)

SpecService == Init /\ [][NextService]_vars

(***************************************************************************)
(* Parser.parse (parser-service.ts).  The activation p of parse runs its   *)
(* client call in calls[p] when the parser's client is the real            *)
(* LLMClientService; otherwise calls[p] is idle and the activation waits   *)
(* for a stub client to settle.                                            *)
(***************************************************************************)
\* parse up to its await: generateCompletion(llmProvider, systemPrompt, input, {})
ParseStart(frame, input) ==
  [IdleParse EXCEPT !.pc = "awaitClient", !.input = input,
                    !.passed = MkPassed(parser.llmClientService, parser.llmProvider,
                                        parser.systemPrompt, input, NoOptions),
                    !.clientCalls = 1]

parse(p, input) ==
  /\ parses[p].pc \in {"idle", "resolved", "raised"}
  /\ parses' = [parses EXCEPT ![p] = ParseStart(@, input)]
  /\ calls' = IF parser.llmClientService = "real"
              THEN [calls EXCEPT ![p] = EnterCall(parser.llmProvider, parser.systemPrompt,
                                                  input, NoOptions)]
              ELSE [calls EXCEPT ![p] = IdleFrame]
  /\ UNCHANGED <<svc, http, fnArg, fnRetry, fnNorm, delayIn, delayOut, parser, setLog, getterOut,
               openai>>

\* mutation: the error caught is replaced by a generic one
ParseCatch_Generic(frame, error) ==
  [frame EXCEPT !.pc = "raised", !.raised = NewError(MsgBad)]

\* mutation: the error caught is wrapped in a new Error
ParseCatch_Wrapped(frame, error) ==
  [frame EXCEPT !.pc = "raised", !.raised = NewError(error.message)]

\* the catch block, lines 70-79: both branches rethrow the error caught
ParseCatch(frame, error) == [frame EXCEPT !.pc = "raised", !.raised = error]

\* lines 68-69: content is the response itself when it is a string and its
\* content field otherwise; JSON.parse(content)
ParseReturn(frame, response) ==
  IF response.kind = "undefined"
  THEN ParseCatch(frame, PropertyTypeError)
  ELSE IF JsonParse(response.content).ok
  THEN [frame EXCEPT !.pc = "resolved", !.value = JsonParse(response.content)]
  ELSE ParseCatch(frame, JsonSyntaxError)

\* the await of line 62 is over: the real client returned or raised
ClientSettles(p) ==
  /\ parses[p].pc = "awaitClient"
  /\ parses[p].passed.client = "real"
  /\ calls[p].pc \in {"returned", "raised"}
  /\ parses' = [parses EXCEPT ![p] =
       IF calls[p].pc = "returned"
       THEN ParseReturn([@ EXCEPT !.got = GotResult(calls[p].result)], calls[p].result)
       ELSE ParseCatch([@ EXCEPT !.got = GotError(calls[p].raised)], calls[p].raised)]
  /\ UNCHANGED <<calls, svc, http, fnArg, fnRetry, fnNorm, delayIn, delayOut, parser, setLog, getterOut,
               openai>>

\* a stub client resolves the awaited generateCompletion
StubClientResolves(p, result) ==
  /\ parses[p].pc = "awaitClient"
  /\ parses[p].passed.client = "stub"
  /\ parses' = [parses EXCEPT ![p] = ParseReturn([@ EXCEPT !.got = GotResult(result)], result)]
  /\ UNCHANGED <<calls, svc, http, fnArg, fnRetry, fnNorm, delayIn, delayOut, parser, setLog, getterOut,
               openai>>

\* a stub client rejects the awaited generateCompletion
StubClientRejects(p, error) ==
  /\ parses[p].pc = "awaitClient"
  /\ parses[p].passed.client = "stub"
  /\ parses' = [parses EXCEPT ![p] = ParseCatch([@ EXCEPT !.got = GotError(error)], error)]
  /\ UNCHANGED <<calls, svc, http, fnArg, fnRetry, fnNorm, delayIn, delayOut, parser, setLog, getterOut,
               openai>>

\* mutation: setting the prompt puts the constructor's provider back
setSystemPrompt_ResetsProvider(systemPrompt) ==
  /\ parser' = [parser EXCEPT !.systemPrompt = systemPrompt, !.llmProvider = "valid"]
  /\ setLog' = [setLog EXCEPT !.systemPrompt = systemPrompt]
  /\ UNCHANGED <<calls, svc, http, fnArg, fnRetry, fnNorm, delayIn, delayOut, getterOut, parses,
               openai>>

setSystemPrompt(systemPrompt) ==
  /\ parser' = [parser EXCEPT !.systemPrompt = systemPrompt]
  /\ setLog' = [setLog EXCEPT !.systemPrompt = systemPrompt]
  /\ UNCHANGED <<calls, svc, http, fnArg, fnRetry, fnNorm, delayIn, delayOut, getterOut, parses,
               openai>>

\* mutation: the calls in flight are moved to the new provider as well
setLLMProvider_Rebinds(llmProvider) ==
  /\ parser' = [parser EXCEPT !.llmProvider = llmProvider]
  /\ setLog' = [setLog EXCEPT !.llmProvider = llmProvider]
  /\ calls' = [c \in CallIds |->
                IF calls[c].pc = "awaitProvider"
                THEN [calls[c] EXCEPT !.provider = llmProvider] ELSE calls[c]]
  /\ UNCHANGED <<svc, http, fnArg, fnRetry, fnNorm, delayIn, delayOut, getterOut, parses,
               openai>>

\* mutation: the provider given to the setter is dropped
setLLMProvider_Ignored(llmProvider) ==
  /\ parser' = parser
  /\ setLog' = [setLog EXCEPT !.llmProvider = llmProvider]
  /\ UNCHANGED <<calls, svc, http, fnArg, fnRetry, fnNorm, delayIn, delayOut, getterOut, parses,
               openai>>

setLLMProvider(llmProvider) ==
  /\ parser' = [parser EXCEPT !.llmProvider = llmProvider]
  /\ setLog' = [setLog EXCEPT !.llmProvider = llmProvider]
  /\ UNCHANGED <<calls, svc, http, fnArg, fnRetry, fnNorm, delayIn, delayOut, getterOut, parses,
               openai>>

setLLMClientService(llmClientService) ==
  /\ parser' = [parser EXCEPT !.llmClientService = llmClientService]
  /\ setLog' = [setLog EXCEPT !.llmClientService = llmClientService]
  /\ UNCHANGED <<calls, svc, http, fnArg, fnRetry, fnNorm, delayIn, delayOut, getterOut, parses,
               openai>>

getSystemPrompt ==
  /\ getterOut' = [name |-> "systemPrompt", value |-> parser.systemPrompt,
                   latest |-> setLog.systemPrompt]
  /\ UNCHANGED <<calls, svc, http, fnArg, fnRetry, fnNorm, delayIn, delayOut, parser, setLog, parses,
               openai>>

getLLMProvider ==
  /\ getterOut' = [name |-> "llmProvider", value |-> parser.llmProvider,
                   latest |-> setLog.llmProvider]
  /\ UNCHANGED <<calls, svc, http, fnArg, fnRetry, fnNorm, delayIn, delayOut, parser, setLog, parses,
               openai>>

getLLMClientService ==
  /\ getterOut' = [name |-> "llmClientService", value |-> parser.llmClientService,
                   latest |-> setLog.llmClientService]
  /\ UNCHANGED <<calls, svc, http, fnArg, fnRetry, fnNorm, delayIn, delayOut, parser, setLog, parses,
               openai>>

(***************************************************************************)
(* Inputs of the parser.                                                   *)
(***************************************************************************)
SystemPrompts == {"promptA", "promptB"}

UserPrompts == {"input1", "input2"}

ClientServices == {"real", "stub"}

ExampleJson ==
  <<"{", "\"", "y", "e", "a", "r", "\"", ":", "\"", "2", "0", "1", "0", "\"",
    ",", "\"", "p", "a", "g", "e", "s", "\"", ":", "\"", "1", "0", "4", "-",
    "1", "1", "7", "\"", "}">>

OtherJson ==
  <<"{", "\"", "y", "e", "a", "r", "\"", ":", "\"", "1", "9", "9", "9", "\"",
    "}">>

TruncatedJson ==
  <<"{", "\"", "y", "e", "a", "r", "\"", ":", "\"", "2", "0", "1", "0", "\"">>

NotJson ==
  <<"n", "o", "t", " ", "j", "s", "o", "n">>

ParserTexts == {ExampleJson, OtherJson, TruncatedJson, NotJson}

ParserResponses == {MkResponse(text, "usage1", "raw1") : text \in ParserTexts}

\* what the provider may throw during a parse
ParserErrors ==
  {MkThrown("Error", 429, MsgBusy, "none", FreshId),
   MkThrown("Error", 401, MsgBad, "cause1", FreshId),
   MkThrown("Error", 500, MsgBad, "cause2", FreshId),
   MkThrown("SyntaxError", NoStatus, UnexpectedTokenMsg, "none", FreshId)}

\* what a stub client may resolve with: the bare text, or a full response
StubResults ==
  {ReturnValue(response, full) : response \in ParserResponses, full \in BOOLEAN}

StubErrors == {NewError(MsgBad), MkThrown("Error", 429, MsgBusy, "none", 1)}

ParserSteps ==
  \/ \E systemPrompt \in SystemPrompts : setSystemPrompt(systemPrompt)
  \/ \E llmProvider \in ValidProviders : setLLMProvider(llmProvider)
  \/ \E llmClientService \in ClientServices : setLLMClientService(llmClientService)
  \/ getSystemPrompt
  \/ getLLMProvider
  \/ getLLMClientService

NextParser ==
  \/ \E p \in ParseIds, input \in UserPrompts : parse(p, input)
  \/ \E p \in ParseIds, response \in ParserResponses : ProviderResolves(p, response)
  \/ \E p \in ParseIds, thrown \in ParserErrors : ProviderRejects(p, thrown, 0)
  \/ \E p \in ParseIds : ClientSettles(p)
  \/ \E p \in ParseIds, result \in StubResults : StubClientResolves(p, result)
  \/ \E p \in ParseIds, error \in StubErrors : StubClientRejects(p, error)
  \/ ParserSteps

SpecParser == Init /\ [][NextParser]_vars

(***************************************************************************)
(* The whole path: Parser.parse over the client over an OpenAIProvider     *)
(* over the vendor.                                                        *)
(***************************************************************************)
\* the client's provider.generateCompletion(...) of line 53 enters the
\* OpenAIProvider, with the client's merged options (no params key)
PathInvoke(p) ==
  /\ calls[p].pc = "awaitProvider"
  /\ openai.invocation.pc \in {"idle", "handed"}
  /\ providerGenerateCompletion(calls[p].systemPrompt, calls[p].userPrompt, NoParams)

\* the provider's promise settles and the client goes on: the success path
\* or the catch block
PathProviderSettles(p) ==
  /\ calls[p].pc = "awaitProvider"
  /\ openai.invocation.pc \in {"returned", "raised"}
  /\ calls' = [calls EXCEPT ![p] =
       IF openai.invocation.pc = "returned"
       THEN SuccessPath(@, openai.invocation.response)
       ELSE CatchBlock(@, openai.invocation.thrown, 0)]
  /\ openai' = [openai EXCEPT !.invocation.pc = "handed"]
  /\ UNCHANGED <<svc, http, fnArg, fnRetry, fnNorm, delayIn, delayOut, parserVars>>

PathConfigs == {NoConfigArg, [NoConfigArg EXCEPT !.maxRetries = Num(1)]}

NextPath ==
  \/ \E config \in PathConfigs :
       OpenAIProviderConstructor(KeyString("test-api-key"), config)
  \/ \E p \in ParseIds, input \in UserPrompts :
       openai.pc = "constructed" /\ parse(p, input)
  \/ \E p \in ParseIds : PathInvoke(p)
  \/ \E response \in ParserResponses : VendorResponds(response)
  \/ \E error \in VendorErrors : VendorFails(error)
  \/ \E p \in ParseIds : PathProviderSettles(p)
  \/ \E p \in ParseIds : ClientSettles(p)

SpecPath == Init /\ [][NextPath]_vars

(***************************************************************************)
(* The HTTP adapter: the POST handler of the entries router and the error  *)
(* middleware.                                                             *)
(***************************************************************************)
InternalServerErrorMsg ==
  <<"I", "n", "t", "e", "r", "n", "a", "l", " ", "s", "e", "r", "v", "e",
    "r", " ", "e", "r", "r", "o", "r">>

UnknowableMsg ==
  <<"S", "o", "m", "e", "t", "h", "i", "n", "g", " ", "u", "n", "k", "n",
    "o", "w", "a", "b", "l", "e", " ", "h", "a", "p", "p", "e", "n", "e",
    "d">>

EntryNotFoundMsg ==
  <<"E", "n", "t", "r", "y", " ", "n", "o", "t", " ", "f", "o", "u", "n",
    "d">>

\* JSON.stringify(req.body.entry): undefined for undefined, the quoted text
\* for a string
JsonStringify(entry) ==
  IF entry.tag = "undefined"
  THEN entry
  ELSE [tag |-> "string", text |-> <<"\"">> \o entry.text \o <<"\"">>]

\* what Controller.parse rejected with: an HttpError (with its statusCode),
\* another Error, or a value that is no Error
MkRejection(kind, statusCode, message) ==
  [kind |-> kind, statusCode |-> statusCode, message |-> message]

\* res.status(status).json(body)
MkHttpResponse(status, tag, value, message) ==
  [status |-> status, body |-> [tag |-> tag, value |-> value, message |-> message]]

\* mutation: the 500 answer carries the error's message
errorMiddleware_Echo(err) ==
  IF err.kind = "HttpError"
  THEN MkHttpResponse(err.statusCode, "error", JsonFail, err.message)
  ELSE MkHttpResponse(500, "error", JsonFail, err.message)

\* errorMiddleware(logger)(err, req, res, next): the response it sends
errorMiddleware(err) ==
  IF err.kind = "HttpError"
  THEN MkHttpResponse(err.statusCode, "error", JsonFail, err.message)
  ELSE IF err.kind \in {"Error", "SyntaxError", "TypeError"}
  THEN MkHttpResponse(500, "error", JsonFail, InternalServerErrorMsg)
  ELSE MkHttpResponse(500, "error", JsonFail, UnknowableMsg)

\* the POST handler up to its await:
\* controller.parse(JSON.stringify(req.body.entry))
PostEntries(entry) ==
  /\ http.pc \in {"idle", "responded"}
  /\ http.requests < MaxRequests
  /\ http' = [http EXCEPT !.pc = "awaitController", !.entry = entry,
                          !.rawData = JsonStringify(entry), !.requests = @ + 1]
  /\ UNCHANGED <<calls, svc, fnArg, fnRetry, fnNorm, delayIn, delayOut, parserVars, openai>>

\* EntriesController.parse, that is Parser.parse, resolved:
\* res.status(200).json(entry)
ControllerResolves(value) ==
  /\ http.pc = "awaitController"
  /\ http' = [http EXCEPT !.pc = "responded",
                          !.log = Append(@, [request |-> http.requests, ok |-> TRUE,
                                             value |-> value,
                                             err |-> MkRejection("none", 0, <<>>),
                                             response |-> MkHttpResponse(200, "entry", value,
                                                                         <<>>)])]
  /\ UNCHANGED <<calls, svc, fnArg, fnRetry, fnNorm, delayIn, delayOut, parserVars, openai>>

\* it rejected: next(err), which runs the error middleware
ControllerRejects(err) ==
  /\ http.pc = "awaitController"
  /\ http' = [http EXCEPT !.pc = "responded",
                          !.log = Append(@, [request |-> http.requests, ok |-> FALSE,
                                             value |-> JsonFail, err |-> err,
                                             response |-> errorMiddleware(err)])]
  /\ UNCHANGED <<calls, svc, fnArg, fnRetry, fnNorm, delayIn, delayOut, parserVars, openai>>

Entries ==
  {[tag |-> "undefined", text |-> <<>>], [tag |-> "string", text |-> MsgBad]}

ParsedEntries == {JsonParse(ExampleJson), JsonParse(OtherJson)}

Rejections ==
  {MkRejection("HttpError", 404, EntryNotFoundMsg),
   MkRejection("HttpError", 422, MsgBad),
   MkRejection("Error", 0, InvalidApiKeyMsg),
   MkRejection("Error", 0, MsgBusy),
   MkRejection("SyntaxError", 0, UnexpectedTokenMsg),
   MkRejection("object", 0, MsgRateLimit),
   MkRejection("undefined", 0, <<>>)}

NextHttp ==
  \/ \E entry \in Entries : PostEntries(entry)
  \/ \E value \in ParsedEntries : ControllerResolves(value)
  \/ \E err \in Rejections : ControllerRejects(err)

\* Controller.parse settles for every request
SpecHttp ==
  /\ Init
  /\ [][NextHttp]_vars
  /\ WF_vars((\E value \in ParsedEntries : ControllerResolves(value))
             \/ (\E err \in Rejections : ControllerRejects(err)))

(***************************************************************************)
(* The JavaScript build of the Parser, running on the JavaScript client:   *)
(* parse reads response.content whatever the response is.                  *)
(***************************************************************************)
parseJs(p, input) ==
  /\ parses[p].pc \in {"idle", "resolved", "raised"}
  /\ parses' = [parses EXCEPT ![p] = ParseStart(@, input)]
  /\ calls' = IF parser.llmClientService = "real"
              THEN [calls EXCEPT ![p] = EnterCallJs(parser.llmProvider, parser.systemPrompt,
                                                    input, NoOptions)]
              ELSE [calls EXCEPT ![p] = IdleFrame]
  /\ UNCHANGED <<svc, http, fnArg, fnRetry, fnNorm, delayIn, delayOut, parser, setLog, getterOut,
               openai>>

\* the catch block: error.message is read for the log, then the error is
\* rethrown
ParseCatchJs(frame, error) ==
  IF error.kind = "undefined"
  THEN [frame EXCEPT !.pc = "raised", !.raised = PropertyTypeError]
  ELSE [frame EXCEPT !.pc = "raised", !.raised = error]

\* JSON.parse(response.content): the content property of a string is
\* undefined, and JSON.parse(undefined) parses the text "undefined"
ParseReturnJs(frame, response) ==
  IF response.kind = "undefined"
  THEN ParseCatchJs(frame, PropertyTypeError)
  ELSE LET content == IF response.kind = "full" THEN response.content ELSE UndefinedStr
       IN IF JsonParse(content).ok
          THEN [frame EXCEPT !.pc = "resolved", !.value = JsonParse(content)]
          ELSE ParseCatchJs(frame, JsonSyntaxError)

ClientSettlesJs(p) ==
  /\ parses[p].pc = "awaitClient"
  /\ parses[p].passed.client = "real"
  /\ calls[p].pc \in {"returned", "raised"}
  /\ parses' = [parses EXCEPT ![p] =
       IF calls[p].pc = "returned"
       THEN ParseReturnJs([@ EXCEPT !.got = GotResult(calls[p].result)], calls[p].result)
       ELSE ParseCatchJs([@ EXCEPT !.got = GotError(calls[p].raised)], calls[p].raised)]
  /\ UNCHANGED <<calls, svc, http, fnArg, fnRetry, fnNorm, delayIn, delayOut, parser, setLog, getterOut,
               openai>>

StubClientResolvesJs(p, result) ==
  /\ parses[p].pc = "awaitClient"
  /\ parses[p].passed.client = "stub"
  /\ parses' = [parses EXCEPT ![p] =
       ParseReturnJs([@ EXCEPT !.got = GotResult(result)], result)]
  /\ UNCHANGED <<calls, svc, http, fnArg, fnRetry, fnNorm, delayIn, delayOut, parser, setLog, getterOut,
               openai>>

StubClientRejectsJs(p, error) ==
  /\ parses[p].pc = "awaitClient"
  /\ parses[p].passed.client = "stub"
  /\ parses' = [parses EXCEPT ![p] = ParseCatchJs([@ EXCEPT !.got = GotError(error)], error)]
  /\ UNCHANGED <<calls, svc, http, fnArg, fnRetry, fnNorm, delayIn, delayOut, parser, setLog, getterOut,
               openai>>

NextParserJs ==
  \/ \E p \in ParseIds, input \in UserPrompts : parseJs(p, input)
  \/ \E p \in ParseIds : ClientSettlesJs(p)
  \/ \E p \in ParseIds, result \in StubResults : StubClientResolvesJs(p, result)
  \/ \E p \in ParseIds, error \in StubErrors : StubClientRejectsJs(p, error)
  \/ ParserSteps

SpecParserJs == Init /\ [][NextParserJs]_vars

(***************************************************************************)
(* calculateRetryDelay applied to a chosen attempt number, base delay and  *)
(* value of Math.random() * 1000.                                          *)
(***************************************************************************)
BaseDelays ==
  {Num(0 - 1000), Num(0), Num(1), Num(100), Num(500), Num(1000), Num(2000),
   Num(29500), Num(30000), Num(40000), OptUndefined}

DelayJitters == {0, 500, JitterRange - 1}

ApplyCalculateRetryDelay ==
  /\ delayOut = <<>>
  /\ delayOut' = <<calculateRetryDelay(delayIn.attempt, delayIn.baseDelay, delayIn.jitter)>>
  /\ UNCHANGED <<calls, svc, http, fnArg, fnRetry, fnNorm, delayIn, parserVars, openai>>

InitDelay ==
  /\ ClientIdle
  /\ FnIdle
  /\ delayIn \in [attempt : 1..MaxAttemptArg, baseDelay : BaseDelays, jitter : DelayJitters]
  /\ delayOut = <<>>
  /\ ParserIdle
  /\ ProviderIdle
  /\ ServiceIdle
  /\ HttpIdle

NextDelay == ApplyCalculateRetryDelay

SpecDelay == InitDelay /\ [][NextDelay]_vars

(***************************************************************************)
(* Two calls in flight on the same client, interleaved at their awaits.    *)
(***************************************************************************)
PairOptions ==
  [maxRetries : {Num(1), Num(2)}, retryDelay : {OptAbsent, Num(29500)},
   returnFullResponse : {FALSE}]

PairResponses == {MkResponse("text1", "usage1", "raw1")}

PairErrors ==
  {MkThrown("Error", 401, MsgBad, "cause1", FreshId),
   MkThrown("Error", 401, MsgTryAgain, "cause2", FreshId),
   MkThrown("Error", 429, MsgBad, "none", FreshId),
   MkThrown("object", 401, MsgBad, "cause1", FreshId)}

NextPair ==
  \/ \E c \in CallIds, options \in PairOptions :
       generateCompletion(c, "valid", "promptA", "input1", options)
  \/ \E c \in CallIds, response \in PairResponses : ProviderResolves(c, response)
  \/ \E c \in CallIds, thrown \in PairErrors, jitter \in JitterValues :
       ProviderRejects(c, thrown, jitter)
  \/ \E c \in CallIds : TimerFires(c)

SpecPair == Init /\ [][NextPair]_vars

(***************************************************************************)
(* Properties of generateCompletion.                                       *)
(***************************************************************************)
\* the outcome of a provider invocation that failed with an error the
\* client classifies as retryable
RetryableFailure(outcome) == ~outcome.ok /\ shouldRetry(outcome.error)

\* the first n provider invocations of the call all failed retryably
FirstAllRetryable(frame, n) ==
  /\ Len(frame.outcomes) >= n
  /\ \A i \in 1..n : RetryableFailure(frame.outcomes[i])

HasBudget(frame, n) ==
  /\ frame.pc # "idle"
  /\ frame.provider = "valid"
  /\ frame.options.maxRetries.tag = "num"
  /\ frame.options.maxRetries.n >= n

\* C1: when the provider's first K invocations raise a retryable error and
\* the (K+1)-th succeeds, with maxRetries >= K+1, the call returns that
\* success value after exactly K+1 provider invocations.  Stated on every
\* state of a call: after K retryable failures and with budget left the call
\* is still going (sleeping with K invocations made, or waiting for the
\* (K+1)-th), and once the (K+1)-th outcome is a success the call has
\* returned its value with exactly K+1 invocations.
C1_RetryThenSuccess ==
  LET f == calls[1]
  IN \A K \in 0..MaxBudget :
       (HasBudget(f, K + 1) /\ FirstAllRetryable(f, K))
       => /\ Len(f.outcomes) = K =>
               \/ f.pc = "sleeping" /\ f.invocations = K /\ K >= 1
               \/ f.pc = "awaitProvider" /\ f.invocations = K + 1
          /\ (Len(f.outcomes) > K /\ f.outcomes[K + 1].ok) =>
               /\ f.pc = "returned"
               /\ f.result = ReturnValue(f.outcomes[K + 1].response,
                                         f.args.returnFullResponse)
               /\ f.invocations = K + 1
               /\ Len(f.outcomes) = K + 1

C1_Witness ==
  LET f == calls[1]
  IN /\ f.pc = "returned"
     /\ f.options.maxRetries = Num(3)
     /\ FirstAllRetryable(f, 2)
     /\ Len(f.outcomes) = 3
     /\ f.outcomes[3].ok
     /\ f.invocations = 3
     /\ f.result.content = f.outcomes[3].response.content

\* C2: with maxRetries = N (an integer >= 0) and a provider that raises a
\* retryable error on every invocation, the call raises after exactly N
\* provider invocations: while fewer than N invocations have failed the call
\* is still going, and once N have failed (at once when N = 0) it has raised
\* and made exactly N invocations.
C2_ExhaustAfterN ==
  LET f == calls[1]
  IN \A N \in 0..(MaxBudget + 1) :
       (HasBudget(f, N) /\ f.options.maxRetries.n = N
        /\ FirstAllRetryable(f, Len(f.outcomes)))
       => /\ f.invocations <= N
          /\ Len(f.outcomes) <= N
          /\ Len(f.outcomes) < N => f.pc \in {"sleeping", "awaitProvider"}
          /\ Len(f.outcomes) = N => f.pc = "raised" /\ f.invocations = N

C2_Witness ==
  LET f == calls[1]
  IN /\ f.pc = "raised"
     /\ f.options.maxRetries = Num(3)
     /\ FirstAllRetryable(f, 3)
     /\ Len(f.outcomes) = 3
     /\ f.invocations = 3

\* C3: when the provider's first invocation raises a non-retryable error, the
\* call raises at once: exactly 1 provider invocation, no sleep, whatever
\* maxRetries is.
C3_NonRetryableRaisesAtOnce ==
  LET f == calls[1]
  IN (Len(f.outcomes) >= 1 /\ ~f.outcomes[1].ok /\ ~shouldRetry(f.outcomes[1].error))
     => /\ f.pc = "raised"
        /\ f.invocations = 1
        /\ f.sleeps = 0
        /\ Len(f.outcomes) = 1

C3_Witness ==
  LET f == calls[1]
  IN /\ f.pc = "raised"
     /\ f.options.maxRetries = Num(3)
     /\ Len(f.outcomes) = 1
     /\ ~f.outcomes[1].ok
     /\ f.outcomes[1].error.status = 500
     /\ f.invocations = 1
     /\ f.sleeps = 0

(***************************************************************************)
(* Properties of shouldRetry and normalizeError.                           *)
(***************************************************************************)
\* the messages of Messages that contain none of "timeout", "rate limit",
\* "busy", "try again" in any letter case, and those that contain one
NonMatchingMessages == {MsgEmpty, MsgBad, MsgRateNoSpace}

MatchingMessages == {MsgTimeoutUpper, MsgRateLimit, MsgBusy, MsgTryAgain}

\* C4, as claimed: shouldRetry returns true for every error whose status is
\* 429, 503 or 504 and false for every error whose status is 400 or 401,
\* whatever the error's message.
C4_Original ==
  (fnRetry # "unset" /\ fnArg.kind = "Error")
  => /\ fnArg.status \in {429, 503, 504} => fnRetry = "true"
     /\ fnArg.status \in {400, 401} => fnRetry = "false"

\* C4, amended: shouldRetry returns true for every error whose status is
\* 429, 503 or 504; for an error whose status is 400 or 401 it returns false
\* when the message matches none of the retryable patterns and true when the
\* message matches one of them.
C4_StatusClassification ==
  (fnRetry # "unset" /\ fnArg.kind = "Error")
  => /\ fnArg.status \in {429, 503, 504} => fnRetry = "true"
     /\ (fnArg.status \in {400, 401} /\ fnArg.message \in NonMatchingMessages)
          => fnRetry = "false"
     /\ (fnArg.status \in {400, 401} /\ fnArg.message \in MatchingMessages)
          => fnRetry = "true"

C4_Witness ==
  /\ fnArg.kind = "Error"
  /\ fnArg.status = 401
  /\ fnArg.message = MsgTryAgain
  /\ fnRetry = "true"

\* C5, as claimed: for every thrown value, Error instance or not, shouldRetry
\* returns true if and only if the value's status is one of 429, 503, 504 or
\* its message matches one of the retryable patterns without regard to case.
C5_Original ==
  fnRetry # "unset"
  => (fnRetry = "true" <=> (fnArg.status \in {429, 503, 504}
                            \/ fnArg.message \in MatchingMessages))

EndsOnFailure(frame) ==
  /\ frame.pc = "raised"
  /\ Len(frame.outcomes) >= 1
  /\ ~frame.outcomes[Len(frame.outcomes)].ok

LastThrown(frame) == frame.outcomes[Len(frame.outcomes)].error

\* C6, as claimed: once an attempt fails with status 400 or 401, the call
\* makes no further provider invocation and no backoff sleep, whatever
\* maxRetries and the error message are: that failure is the call's last
\* outcome and the call has raised.
C6_Original ==
  LET f == calls[1]
  IN \A i \in 1..Len(f.outcomes) :
       (~f.outcomes[i].ok /\ f.outcomes[i].error.status \in {400, 401})
       => /\ i = Len(f.outcomes)
          /\ f.pc = "raised"
          /\ f.invocations = i
          /\ f.sleeps = i - 1

\* C6, amended: once an attempt fails with status 400 or 401 and a message
\* that matches none of the retryable patterns, the call makes no further
\* provider invocation and no backoff sleep, whatever maxRetries is.
C6_ClientRequestErrorNotRetried ==
  LET f == calls[1]
  IN \A i \in 1..Len(f.outcomes) :
       (/\ ~f.outcomes[i].ok
        /\ f.outcomes[i].error.status \in {400, 401}
        /\ f.outcomes[i].error.message \in NonMatchingMessages)
       => /\ i = Len(f.outcomes)
          /\ f.pc = "raised"
          /\ f.invocations = i
          /\ f.sleeps = i - 1

C6_Witness ==
  LET f == calls[1]
  IN /\ f.pc = "raised"
     /\ f.options.maxRetries = Num(3)
     /\ Len(f.outcomes) = 2
     /\ RetryableFailure(f.outcomes[1])
     /\ f.outcomes[2].error.kind = "Error"
     /\ f.outcomes[2].error.status = 401
     /\ f.outcomes[2].error.message = MsgBad
     /\ f.invocations = 2
     /\ f.sleeps = 1

C9_InvalidProviderFailsFast ==
  LET f == calls[1]
  IN f.provider \in {"null", "noMethod"}
     => /\ f.pc = "raised"
        /\ f.raised = NewError(ProviderRequiredMsg)
        /\ f.invocations = 0
        /\ f.sleeps = 0
        /\ f.outcomes = <<>>

C9_Witness ==
  LET f == calls[1]
  IN /\ f.provider = "noMethod"
     /\ f.args.maxRetries = Num(3)
     /\ f.pc = "raised"
     /\ f.raised.message = ProviderRequiredMsg
     /\ f.invocations = 0

\* the call used up its attempt budget on retryable errors
BudgetExhausted(frame) ==
  /\ EndsOnFailure(frame)
  /\ frame.options.maxRetries.tag = "num"
  /\ Len(frame.outcomes) = frame.options.maxRetries.n
  /\ FirstAllRetryable(frame, Len(frame.outcomes))

\* C10, as claimed: when the attempt budget is exhausted on retryable errors,
\* the error raised is the error of the last attempt itself, message
\* preserved.
C10_Original ==
  LET f == calls[1]
  IN BudgetExhausted(f) => f.raised = LastThrown(f)

\* C10, amended: when the attempt budget is exhausted on retryable errors,
\* the error raised is the error of the last attempt itself, message
\* preserved, unless that error's status is 400 or 401; then it is replaced
\* by a new error, "Invalid API key" for 401 and "Invalid request: " followed
\* by the message for 400.
C10_LastErrorSurfaced ==
  LET f == calls[1]
  IN BudgetExhausted(f)
     => /\ LastThrown(f).id = f.options.maxRetries.n
        /\ LastThrown(f).status \notin {400, 401} => f.raised = LastThrown(f)
        /\ LastThrown(f).status = 401 => f.raised = NewError(InvalidApiKeyMsg)
        /\ LastThrown(f).status = 400 =>
             f.raised = NewError(InvalidRequestPrefix \o LastThrown(f).message)

C10_Witness ==
  LET f == calls[1]
  IN /\ BudgetExhausted(f)
     /\ Len(f.outcomes) = 2
     /\ f.outcomes[1].error.status = 429
     /\ LastThrown(f).status = NoStatus
     /\ LastThrown(f).message = MsgTimeoutUpper
     /\ f.raised.id = 2
     /\ f.raised.message = MsgTimeoutUpper

(***************************************************************************)
(* C13: a call that returned did so on a successful provider invocation,   *)
(* which is its last one: with returnFullResponse set the value returned   *)
(* is the record of the content, usage and rawResponse of that response,   *)
(* otherwise it is the content alone; every earlier invocation failed and  *)
(* no invocation follows the successful one.                               *)
(***************************************************************************)
C13_SuccessReturnsResponse ==
  \A c \in CallIds :
    LET f == calls[c]
        n == Len(f.outcomes)
    IN f.pc = "returned" =>
         /\ n >= 1
         /\ f.outcomes[n].ok
         /\ \A i \in 1..(n - 1) : ~f.outcomes[i].ok
         /\ f.invocations = n
         /\ Len(f.requests) = n
         /\ IF f.args.returnFullResponse = TRUE
            THEN /\ f.result.kind = "full"
                 /\ f.result.content = f.outcomes[n].response.content
                 /\ f.result.usage = f.outcomes[n].response.usage
                 /\ f.result.rawResponse = f.outcomes[n].response.rawResponse
            ELSE /\ f.result.kind = "content"
                 /\ f.result.content = f.outcomes[n].response.content

C13_Witness ==
  LET f == calls[1]
  IN /\ f.pc = "returned"
     /\ f.args.returnFullResponse = TRUE
     /\ Len(f.outcomes) = 2
     /\ f.result.kind = "full"
     /\ f.result.usage = "usage1"
     /\ f.result.rawResponse = "raw1"

(***************************************************************************)
(* C14 as stated: for a numeric base delay, calculateRetryDelay(n, base)   *)
(* is at least base * 2^(n-1), at most base * 2^(n-1) + 1000 and at most   *)
(* 30000.                                                                  *)
(***************************************************************************)
C14_Original ==
  (delayOut # <<>> /\ delayIn.baseDelay.tag = "num") =>
    LET exponentialDelay == delayIn.baseDelay.n * 2 ^ (delayIn.attempt - 1)
    IN /\ delayOut[1].tag = "num"
       /\ delayOut[1].n >= exponentialDelay
       /\ delayOut[1].n <= exponentialDelay + 1000
       /\ delayOut[1].n <= 30000

(***************************************************************************)
(* C14 amended: for a numeric base delay, calculateRetryDelay(n, base) is  *)
(* at least the smaller of base * 2^(n-1) and 30000, at most               *)
(* base * 2^(n-1) + 1000 and at most 30000; below the cap it exceeds       *)
(* base * 2^(n-1) by the jitter exactly.                                   *)
(***************************************************************************)
C14_DelayBounds ==
  (delayOut # <<>> /\ delayIn.baseDelay.tag = "num") =>
    LET exponentialDelay == delayIn.baseDelay.n * 2 ^ (delayIn.attempt - 1)
    IN /\ delayOut[1].tag = "num"
       /\ delayOut[1].n >= (IF exponentialDelay <= 30000 THEN exponentialDelay ELSE 30000)
       /\ delayOut[1].n <= exponentialDelay + 1000
       /\ delayOut[1].n <= 30000
       /\ exponentialDelay + delayIn.jitter <= 30000 =>
            delayOut[1].n = exponentialDelay + delayIn.jitter

C14_Witness ==
  /\ delayOut # <<>>
  /\ delayIn.attempt = 6
  /\ delayIn.baseDelay = Num(1000)
  /\ delayOut[1] = Num(30000)

(***************************************************************************)
(* A call run alone: the activation that generateCompletion reaches from   *)
(* its arguments when its provider invocations end as the outcomes say,    *)
(* one after the other, with no other call on the client.                  *)
(***************************************************************************)
RECURSIVE RunAlone(_, _)
RunAlone(frame, outcomes) ==
  IF outcomes = <<>>
  THEN frame
  ELSE LET ready == IF frame.pc = "sleeping"
                    THEN LoopHead(frame, frame.attempt + 1)
                    ELSE frame
           after == IF Head(outcomes).ok
                    THEN SuccessPath(ready, Head(outcomes).response)
                    ELSE CatchBlock(ready, Head(outcomes).error, 0)
       IN RunAlone(after, Tail(outcomes))

\* the two activations agree on everything but the jitter of the delay
SameUpToJitter(frame, alone) ==
  /\ [frame EXCEPT !.delay = alone.delay] = alone
  /\ frame.delay.tag = alone.delay.tag
  /\ (frame.delay.n - alone.delay.n) \in 0..999

(***************************************************************************)
(* C12: under every interleaving of the calls on one client, each call is  *)
(* where it would be had it run alone with the same arguments and the same *)
(* outcomes of its own provider invocations: same number of invocations,   *)
(* same attempt number, same sleeps, same result or raised error.          *)
(***************************************************************************)
C12_CallsIndependent ==
  \A c \in CallIds :
    LET f == calls[c]
        alone == RunAlone(EnterCall(f.provider, f.systemPrompt, f.userPrompt, f.args),
                          f.outcomes)
    IN IF f.pc = "idle"
       THEN f = IdleFrame
       ELSE \/ SameUpToJitter(f, alone)
            \/ /\ alone.pc = "sleeping"
               /\ SameUpToJitter(f, LoopHead(alone, alone.attempt + 1))

\* both calls are in flight, at different attempts
C12_Witness ==
  /\ calls[1].pc = "sleeping"
  /\ calls[1].attempt = 1
  /\ calls[1].sleeps = 1
  /\ calls[2].pc = "awaitProvider"
  /\ calls[2].attempt = 2
  /\ calls[2].invocations = 2

(***************************************************************************)
(* C11 as stated: a call of generateCompletion that is over either         *)
(* returned or raised; when it returned, its last provider invocation      *)
(* succeeded and the value returned is the content or the full record of   *)
(* that response; when it raised, a value other than undefined was raised. *)
(* No call returns without a successful provider invocation, whatever the  *)
(* options.                                                                *)
(***************************************************************************)
C11_Original ==
  \A c \in CallIds :
    LET f == calls[c]
        n == Len(f.outcomes)
    IN /\ f.pc \in {"idle", "awaitProvider", "sleeping", "returned", "raised"}
       /\ f.pc = "returned" =>
            /\ f.invocations >= 1
            /\ n >= 1
            /\ f.outcomes[n].ok
            /\ f.result.kind \in {"content", "full"}
            /\ f.result.content = f.outcomes[n].response.content
            /\ f.raised = UndefinedValue
       /\ f.pc = "raised" =>
            /\ f.raised # UndefinedValue
            /\ f.result = NoResult

(***************************************************************************)
(* Properties of Parser.parse.                                             *)
(***************************************************************************)
\* the parse call is over
ParseSettled(frame) == frame.pc \in {"resolved", "raised"}

\* the members of the two JSON texts the providers return, written out
ExampleFields ==
  {<<<<"y", "e", "a", "r">>, <<"2", "0", "1", "0">>>>,
   <<<<"p", "a", "g", "e", "s">>, <<"1", "0", "4", "-", "1", "1", "7">>>>}

OtherFields == {<<<<"y", "e", "a", "r">>, <<"1", "9", "9", "9">>>>}

\* every provider invocation of the client call returned the text as content
ProviderReturns(frame, text) ==
  \A i \in 1..Len(frame.outcomes) :
    frame.outcomes[i].ok /\ frame.outcomes[i].response.content = text

\* the parse call resolved to the object with exactly these members
ResolvedTo(frame, fields) ==
  /\ frame.pc = "resolved"
  /\ frame.value.ok
  /\ frame.value.type = "object"
  /\ frame.value.members = fields

(***************************************************************************)
(* C15 as stated: a parse call that ran on the real client with a provider *)
(* returning the example JSON text (or the other JSON text) on its         *)
(* invocations resolved to the object with the members of that text, and   *)
(* the provider was invoked exactly once, with the system prompt parse     *)
(* passed and the input as user prompt.                                    *)
(***************************************************************************)
C15_Original ==
  \A p \in ParseIds :
    LET f == parses[p]
        c == calls[p]
    IN \A text \in {ExampleJson, OtherJson} :
         (ParseSettled(f) /\ f.passed.client = "real" /\ ProviderReturns(c, text)) =>
           /\ ResolvedTo(f, IF text = ExampleJson THEN ExampleFields ELSE OtherFields)
           /\ c.invocations = 1
           /\ Len(c.requests) = 1
           /\ c.requests[1].systemPrompt = f.passed.systemPrompt
           /\ c.requests[1].userPrompt = f.input
           /\ c.provider = f.passed.provider

\* the texts of the providers that are not JSON
InvalidTexts == {TruncatedJson, NotJson}

\* the client returned a text to parse and the text is not JSON
ClientReturnedInvalidJson(frame) ==
  /\ frame.got.settled
  /\ frame.got.ok
  /\ frame.got.result.kind \in {"content", "full"}
  /\ frame.got.result.content \in InvalidTexts

(***************************************************************************)
(* C16 as stated: a parse call whose client returned a text that is not    *)
(* JSON raised; and a parse call that raised did so with a parse-failure   *)
(* error (a SyntaxError) if and only if its client returned a text that is *)
(* not JSON, never when the client call itself raised.                     *)
(***************************************************************************)
C16_Original ==
  \A p \in ParseIds :
    LET f == parses[p]
    IN ParseSettled(f) =>
         /\ ClientReturnedInvalidJson(f) => f.pc = "raised"
         /\ f.pc = "raised" =>
              (f.raised.kind = "SyntaxError" <=> ClientReturnedInvalidJson(f))

(***************************************************************************)
(* C17: a parse call invokes generateCompletion once; when that invocation *)
(* raised E, parse raised the very same E (same class, status, message,    *)
(* cause and identity); when it returned a text that is not JSON, parse    *)
(* raised without a second client invocation, and the client's single      *)
(* activation stays returned.                                              *)
(***************************************************************************)
C17_NoRetryNoWrapping ==
  \A p \in ParseIds :
    LET f == parses[p]
        c == calls[p]
    IN /\ f.pc # "idle" => f.clientCalls = 1
       /\ (ParseSettled(f) /\ ~f.got.ok) =>
            /\ f.pc = "raised"
            /\ f.raised = f.got.error
            /\ f.passed.client = "real" => (c.pc = "raised" /\ f.raised = c.raised)
       /\ (ParseSettled(f) /\ ClientReturnedInvalidJson(f)) =>
            /\ f.pc = "raised"
            /\ f.passed.client = "real" =>
                 (c.pc = "returned" /\ c.invocations = 1 /\ Len(c.requests) = 1)

\* the client raised a retryable provider error and parse raised that error
C17_Witness ==
  /\ parses[1].pc = "raised"
  /\ parses[1].passed.client = "real"
  /\ calls[1].pc = "raised"
  /\ calls[1].raised.status = 429
  /\ calls[1].raised.id = 1
  /\ parses[1].raised = calls[1].raised

(***************************************************************************)
(* C18 as stated: the outcome of a parse call whose client returned a text *)
(* depends on the text alone, not on whether the client returned it as a   *)
(* bare string or as the content of a full-response object: for either     *)
(* form the two JSON texts resolve to their members, and the two texts     *)
(* that are not JSON raise a SyntaxError.                                  *)
(***************************************************************************)
C18_Original ==
  \A p \in ParseIds :
    LET f == parses[p]
        text == f.got.result.content
    IN (ParseSettled(f) /\ f.got.ok /\ f.got.result.kind \in {"content", "full"}) =>
         /\ text = ExampleJson => ResolvedTo(f, ExampleFields)
         /\ text = OtherJson => ResolvedTo(f, OtherFields)
         /\ text \in InvalidTexts => (f.pc = "raised" /\ f.raised.kind = "SyntaxError")

\* the step starts the parse call p
ParseBegins(p) == parses[p].pc # "awaitClient" /\ parses'[p].pc = "awaitClient"

(***************************************************************************)
(* C19: a getter returns the value most recently given to the matching     *)
(* setter (at first, to the constructor), and a parse call that starts     *)
(* passes to generateCompletion the system prompt and the provider most    *)
(* recently set, on the client most recently set; with the real client     *)
(* that provider is the one invoked, with that prompt.                     *)
(***************************************************************************)
C19_HotSwap ==
  /\ [](getterOut.name # "none" => getterOut.value = getterOut.latest)
  /\ [][\A p \in ParseIds :
          ParseBegins(p) =>
            /\ parses'[p].passed.systemPrompt = setLog.systemPrompt
            /\ parses'[p].passed.provider = setLog.llmProvider
            /\ parses'[p].passed.client = setLog.llmClientService
            /\ parses'[p].passed.options = NoOptions
            /\ setLog.llmClientService = "real" =>
                 /\ calls'[p].provider = setLog.llmProvider
                 /\ Len(calls'[p].requests) = 1
                 /\ calls'[p].requests[1].systemPrompt = setLog.systemPrompt
                 /\ calls'[p].requests[1].userPrompt = parses'[p].input]_vars

\* prompt and provider were swapped, read back, and a parse call started
C19_Witness ==
  /\ setLog.systemPrompt = "promptB"
  /\ setLog.llmProvider = "valid2"
  /\ getterOut = [name |-> "llmProvider", value |-> "valid2", latest |-> "valid2"]
  /\ parses[1].pc = "awaitClient"
  /\ parses[1].passed.systemPrompt = "promptB"
  /\ parses[1].passed.provider = "valid2"
  /\ calls[1].provider = "valid2"
  /\ calls[1].requests[1].systemPrompt = "promptB"

(***************************************************************************)
(* C20: constructing an OpenAIProvider with an empty, null or undefined    *)
(* apiKey raises the error 'OpenAI API key is required'; no dispatcher was *)
(* installed, no vendor client created and no configuration stored, so no  *)
(* provider instance exists, and no vendor call is ever made through it.   *)
(* A construction raises only for such a key.                              *)
(***************************************************************************)
C20_MissingKeyRaisesFirst ==
  /\ (openai.pc # "none" /\ (openai.apiKey.tag \in {"null", "undefined"}
                               \/ openai.apiKey = KeyString(""))) =>
       /\ openai.pc = "raised"
       /\ openai.raised.kind = "Error"
       /\ openai.raised.message = ApiKeyRequiredMsg
       /\ openai.vendorClients = 0
       /\ openai.client = NoVendorClient
       /\ openai.dispatchers = 0
       /\ openai.config = NoProviderConfig
       /\ openai.networkCalls = 0
  /\ openai.pc = "raised" =>
       (openai.apiKey.tag \in {"null", "undefined"} \/ openai.apiKey = KeyString(""))

C20_Witness ==
  /\ openai.pc = "raised"
  /\ openai.apiKey = KeyString("")
  /\ openai.configArg.model = "gpt-4"
  /\ openai.vendorClients = 0
  /\ openai.networkCalls = 0

(***************************************************************************)
(* OpenAIProvider: invocations, configuration and error normalization      *)
(***************************************************************************)
InvocationSettled == openai.invocation.pc \in {"returned", "raised"}

InvocationStarted == openai.invocation.pc # "idle"

\* C21 (as stated): every finished invocation of the provider made exactly
\* one network call, and the vendor client's retry budget is the configured
\* one whenever a number, 0 included, is configured.
C21_Original ==
  /\ InvocationSettled => openai.invocation.networkCalls = 1
  /\ (openai.pc = "constructed" /\ openai.configArg.maxRetries.tag = "num")
       => openai.client.maxRetries = openai.configArg.maxRetries.n

\* C22: when the vendor call fails with an error that carries a status or
\* is an API error, the provider raises a new error with the same message
\* and the same status, the vendor's error attached to it; with any other
\* error it raises that very error.
C22_ProviderNormalizes ==
  openai.invocation.pc = "raised" =>
    LET error == openai.invocation.vendorError
        thrown == openai.invocation.thrown
    IN IF error.kind = "APIError" \/ error.status # NoStatus
       THEN /\ thrown.kind = "Error"
            /\ thrown.id = FreshId
            /\ thrown.message = error.message
            /\ thrown.status = error.status
            /\ openai.invocation.attached = error
       ELSE /\ thrown = error
            /\ openai.invocation.attached = UndefinedValue

\* a rate-limit API error was wrapped after the vendor client gave up
C22_Witness ==
  /\ openai.invocation.pc = "raised"
  /\ openai.invocation.vendorError.kind = "APIError"
  /\ openai.invocation.vendorError.status = 429
  /\ openai.invocation.thrown.status = 429
  /\ openai.invocation.attached = openai.invocation.vendorError

SixKeys ==
  {"model", "temperature", "maxTokens", "topP", "frequencyPenalty", "presencePenalty"}

\* the value the ProviderConfig supplies for a key, when it supplies one
Supplies(configArg, key) ==
  IF key = "model" THEN configArg.model # "absent" ELSE configArg[key].tag = "num"

Supplied(configArg, key) ==
  IF key = "model" THEN configArg.model ELSE configArg[key].n

BuiltInDefaults ==
  [model |-> DefaultModel, temperature |-> DefaultTemperature,
   maxTokens |-> DefaultMaxTokens, topP |-> DefaultTopP,
   frequencyPenalty |-> DefaultFrequencyPenalty,
   presencePenalty |-> DefaultPresencePenalty]

\* C23 (as stated): each of the six parameters of a constructed provider
\* has the value the ProviderConfig supplies, 0 included, and the built-in
\* default only when the ProviderConfig supplies none.
C23_Original ==
  openai.pc = "constructed" =>
    \A key \in SixKeys :
      openai.config[key] = IF Supplies(openai.configArg, key)
                           THEN Supplied(openai.configArg, key)
                           ELSE BuiltInDefaults[key]

Keys(pairs) == {pair[1] : pair \in pairs}

\* C24 (as stated): for every key of options.params the request carries the
\* override, for every other key of the instance configuration the instance
\* value, and the call leaves the instance configuration as it was.
C24_Original ==
  InvocationStarted =>
    LET body == openai.invocation.request.body
        top == openai.invocation.paramsArg.top
        config == openai.invocation.configBefore
    IN /\ \A pair \in top :
            pair[1] \in DOMAIN body /\ body[pair[1]] = pair[2]
       /\ \A key \in DOMAIN config \ Keys(top) :
            key \in DOMAIN body /\ body[key] = config[key]
       /\ openai.config = config

\* C25 (as stated): every additional parameter of the ProviderConfig is in
\* the body of every vendor request.
C25_Original ==
  InvocationStarted =>
    \A pair \in openai.configArg.additionalParams :
      /\ pair[1] \in DOMAIN openai.invocation.request.body
      /\ openai.invocation.request.body[pair[1]] = pair[2]

(***************************************************************************)
(* The attempt loop of the client as a whole.                              *)
(***************************************************************************)
\* the call went past the provider check with a numeric attempt budget
InLoop(f) ==
  /\ f.pc # "idle"
  /\ IsValidProvider(f.provider)
  /\ f.options.maxRetries.tag = "num"

\* an outcome that ends the loop: a success or a non-retryable failure
Terminal(outcome) == outcome.ok \/ ~shouldRetry(outcome.error)

\* C27: a call that has ended with attempt budget maxRetries invoked the
\* provider n times, where every outcome before the n-th is a retryable
\* failure and either n = maxRetries or the n-th outcome is a success or a
\* non-retryable failure (n = min(maxRetries, j)); it returned if the n-th
\* outcome is a success and otherwise raised normalizeError of the n-th
\* failure.
C27_AttemptLoopReference ==
  LET f == calls[1]
      n == f.invocations
  IN (InLoop(f) /\ f.pc \in {"returned", "raised"}) =>
       /\ Len(f.outcomes) = n
       /\ n <= f.options.maxRetries.n
       /\ \A i \in 1..(n - 1) : ~Terminal(f.outcomes[i])
       /\ n = f.options.maxRetries.n \/ Terminal(f.outcomes[n])
       /\ n >= 1 =>
            IF f.outcomes[n].ok
            THEN f.pc = "returned"
            ELSE /\ f.pc = "raised"
                 /\ f.raised = normalizeError(f.outcomes[n].error)

\* two retryable failures, then a non-retryable one, with a budget of 3
C27_Witness ==
  LET f == calls[1]
  IN /\ InLoop(f)
     /\ f.pc = "raised"
     /\ f.options.maxRetries = Num(3)
     /\ f.invocations = 3
     /\ ~Terminal(f.outcomes[1])
     /\ ~Terminal(f.outcomes[2])
     /\ ~f.outcomes[3].ok
     /\ f.outcomes[3].error.status = 401
     /\ f.raised = NewError(InvalidApiKeyMsg)

\* C28: in every state of a call the provider was invoked at most
\* maxRetries times, the attempt in progress is the number of invocations
\* made (attempts count 1, 2, 3, ...), and at most one invocation has no
\* outcome yet, namely while the call awaits the provider.
C28_SequentialAttempts ==
  LET f == calls[1]
      outstanding == f.invocations - Len(f.outcomes)
  IN InLoop(f) =>
       /\ f.invocations <= f.options.maxRetries.n
       /\ Len(f.requests) = f.invocations
       /\ f.pc \in {"awaitProvider", "sleeping"} => f.attempt = f.invocations
       /\ outstanding \in {0, 1}
       /\ outstanding = 1 <=> f.pc = "awaitProvider"

\* the third attempt is outstanding after two failed ones
C28_Witness ==
  LET f == calls[1]
  IN /\ InLoop(f)
     /\ f.pc = "awaitProvider"
     /\ f.attempt = 3
     /\ f.invocations = 3
     /\ Len(f.outcomes) = 2

\* C30 (as stated): when the options give no number for maxRetries (absent
\* or undefined) the budget of the call is the default 1, when they give
\* none for retryDelay the base delay is 1000, and a number given by the
\* caller is the one used.
C30_Original ==
  LET f == calls[1]
  IN (f.pc # "idle" /\ IsValidProvider(f.provider)) =>
       /\ f.options.maxRetries =
            IF f.args.maxRetries.tag = "num"
            THEN f.args.maxRetries ELSE Num(DefaultMaxRetries)
       /\ f.options.retryDelay =
            IF f.args.retryDelay.tag = "num"
            THEN f.args.retryDelay ELSE Num(DefaultRetryDelay)

(***************************************************************************)
(* Where the backoff sleeps are.                                           *)
(***************************************************************************)
\* C29: while a call sleeps it has slept once per invocation made, outside
\* a sleep once less than that (one sleep between two consecutive
\* invocations, none before the first or after the last); the sleep after
\* failed attempt k lasts calculateRetryDelay(k, retryDelay), at most
\* 30000 ms; and while a call sleeps every other call can start, and an
\* other call that awaits its provider can go on.
C29_BackoffPlacement ==
  \A c \in CallIds :
    LET f == calls[c]
    IN InLoop(f) =>
         /\ f.pc = "sleeping" => f.sleeps = f.invocations
         /\ (f.pc # "sleeping" /\ f.invocations >= 1) => f.sleeps = f.invocations - 1
         /\ f.invocations = 0 => f.sleeps = 0
         /\ f.pc = "sleeping" =>
              /\ \E jitter \in 0..(JitterRange - 1) :
                   f.delay = calculateRetryDelay(f.attempt, f.options.retryDelay, jitter)
              /\ f.delay.n <= MaxDelay
              /\ \A d \in CallIds \ {c} :
                   /\ calls[d].pc \in {"idle", "returned", "raised"} =>
                        ENABLED generateCompletion(d, "valid", "promptA", "input1",
                                                   NoOptions)
                   /\ calls[d].pc = "awaitProvider" =>
                        \A response \in PairResponses :
                          ENABLED ProviderResolves(d, response)

\* call 1 sleeps the capped delay after its first attempt while call 2, which
\* started and slept meanwhile, awaits its second invocation
C29_Witness ==
  /\ calls[1].pc = "sleeping"
  /\ calls[1].sleeps = 1
  /\ calls[1].invocations = 1
  /\ calls[1].delay = Num(MaxDelay)
  /\ calls[2].pc = "awaitProvider"
  /\ calls[2].invocations = 2
  /\ calls[2].sleeps = 1

(***************************************************************************)
(* The provider held by the LLMClientService.                              *)
(***************************************************************************)
\* the step is a call of setProvider
IsSetProviderStep == svc'.sets = svc.sets + 1

\* call c invokes a provider in the step
InvokesInStep(c) ==
  /\ svc'.invoked[c] # svc.invoked[c]
  /\ svc'.invoked[c] # <<>>

\* C26: the provider the client holds always has a callable
\* generateCompletion; the constructor raises "Valid LLM provider is
\* required" for an invalid provider and yields no client; setProvider
\* raises the same for an invalid provider and leaves the held provider as
\* it was, and otherwise makes its argument the held provider; every
\* invocation is made on the provider held at that moment, so a call that
\* started after the latest successful setProvider has invoked no other
\* provider than the one it set.
C26_HeldProviderValid ==
  /\ [](/\ svc.pc = "constructed" => IsValidProvider(svc.provider)
        /\ svc.pc = "raised" => /\ svc.raised = NewError(ProviderRequiredMsg)
                                /\ svc.provider = NoService.provider
        /\ svc.pc = "none" => svc = NoService
        /\ (svc.sets >= 1 /\ ~IsValidProvider(svc.setArg))
             => svc.raised = NewError(ProviderRequiredMsg)
        /\ \A c \in CallIds :
             svc.startedAt[c] = svc.setsDone =>
               \A i \in 1..Len(svc.invoked[c]) : svc.invoked[c][i] = svc.provider)
  /\ [][/\ IsSetProviderStep =>
            /\ svc'.provider = IF IsValidProvider(svc'.setArg)
                               THEN svc'.setArg ELSE svc.provider
            /\ svc'.invoked = svc.invoked
        /\ \A c \in CallIds :
             InvokesInStep(c) =>
               /\ svc'.invoked[c][Len(svc'.invoked[c])] = svc.provider
               /\ svc'.provider = svc.provider]_vars

\* constructed on one provider, switched to another while no call was
\* running, a later setProvider(null) raised, and a call started after the
\* switch made both its invocations on the new provider
C26_Witness ==
  /\ svc.pc = "constructed"
  /\ svc.provider = "valid2"
  /\ svc.sets = 2
  /\ svc.setsDone = 1
  /\ svc.setArg = "null"
  /\ svc.raised = NewError(ProviderRequiredMsg)
  /\ svc.startedAt[1] = 1
  /\ svc.invoked[1] = <<"valid2", "valid2">>

(***************************************************************************)
(* The request of each attempt, the growth of the delay, termination.      *)
(***************************************************************************)
\* C31: every request a call sent to its provider carries the caller's
\* systemPrompt and userPrompt and, as options, the merged options: each
\* key the caller supplied with the caller's value, maxRetries and
\* retryDelay with their effective values; all requests of a call are equal.
C31_SameRequestEachAttempt ==
  LET f == calls[1]
  IN InLoop(f) =>
       /\ Len(f.requests) = f.invocations
       /\ \A i \in 1..Len(f.requests) :
            /\ f.requests[i].systemPrompt = f.systemPrompt
            /\ f.requests[i].userPrompt = f.userPrompt
            /\ f.requests[i].options = f.options
            /\ f.args.maxRetries.tag # "absent" =>
                 f.requests[i].options.maxRetries = f.args.maxRetries
            /\ f.args.retryDelay.tag # "absent" =>
                 f.requests[i].options.retryDelay = f.args.retryDelay
            /\ f.requests[i].options.returnFullResponse = f.args.returnFullResponse
            /\ f.requests[i] = f.requests[1]

\* three attempts were made with caller-supplied maxRetries 3, retryDelay 100
C31_Witness ==
  LET f == calls[1]
  IN /\ InLoop(f)
     /\ f.args.maxRetries = Num(3)
     /\ f.args.retryDelay = Num(100)
     /\ f.args.returnFullResponse
     /\ Len(f.requests) = 3
     /\ f.requests[3].options = f.args

\* C33 (as stated): for a numeric base delay and every attempt n, the delay
\* of attempt n + 1 less its jitter is greater than the delay of attempt n
\* less its jitter, and the delay is at most 30000.
C33_Original ==
  (delayOut # <<>> /\ delayIn.baseDelay.tag = "num") =>
    LET next == calculateRetryDelay(delayIn.attempt + 1, delayIn.baseDelay, delayIn.jitter)
    IN /\ next.n - delayIn.jitter > delayOut[1].n - delayIn.jitter
       /\ delayOut[1].n <= MaxDelay

\* C33 amended: for a base delay > 0 the delay is at most 30000, the delay
\* of attempt n + 1 is never less than the delay of attempt n with the same
\* jitter, and it is greater whenever the delay of attempt n is below 30000.
C33_IncreasesBelowCap ==
  (delayOut # <<>> /\ delayIn.baseDelay.tag = "num" /\ delayIn.baseDelay.n > 0) =>
    LET next == calculateRetryDelay(delayIn.attempt + 1, delayIn.baseDelay, delayIn.jitter)
    IN /\ delayOut[1].n <= MaxDelay
       /\ next.n <= MaxDelay
       /\ next.n >= delayOut[1].n
       /\ delayOut[1].n < MaxDelay => next.n > delayOut[1].n

\* attempt 5 of base 1000 is below the cap, attempt 6 is capped
C33_Witness ==
  /\ delayOut # <<>>
  /\ delayIn.attempt = 5
  /\ delayIn.baseDelay = Num(1000)
  /\ delayIn.jitter = 500
  /\ delayOut[1] = Num(16500)
  /\ calculateRetryDelay(6, delayIn.baseDelay, delayIn.jitter) = Num(MaxDelay)

\* C38: a call never invokes its provider more than maxRetries times nor
\* sleeps more than maxRetries - 1 times, and when every invocation settles
\* and every sleep ends, a call that awaits its provider or sleeps has
\* returned or raised some time later.
C38_Terminates ==
  LET f == calls[1]
  IN /\ [](InLoop(f) =>
            /\ f.invocations <= f.options.maxRetries.n
            /\ f.sleeps <= (IF f.options.maxRetries.n >= 1
                            THEN f.options.maxRetries.n - 1 ELSE 0))
     /\ [](f.pc \in {"idle", "awaitProvider", "sleeping", "returned", "raised"})
     /\ (f.pc \in {"awaitProvider", "sleeping"}) ~> (f.pc \in {"returned", "raised"})

\* the budget of 3 was used up: 3 invocations, 2 sleeps, and the call ended
C38_Witness ==
  LET f == calls[1]
  IN /\ InLoop(f)
     /\ f.pc = "raised"
     /\ f.options.maxRetries = Num(3)
     /\ f.invocations = 3
     /\ f.sleeps = 2

(***************************************************************************)
(* The Parser over the client: attempt budget, hot swaps, setters.         *)
(***************************************************************************)
\* C35: a parse call on the real client causes at most one provider
\* invocation and no sleep; when that invocation fails, with a retryable
\* error as well, the client call has raised at once and parse raises what
\* the client raised.
C35_ParseNeverRetries ==
  \A p \in ParseIds :
    LET f == parses[p]
        c == calls[p]
    IN (f.pc # "idle" /\ f.passed.client = "real") =>
         /\ c.args = NoOptions
         /\ c.options.maxRetries = Num(DefaultMaxRetries)
         /\ c.invocations <= 1
         /\ c.sleeps = 0
         /\ (Len(c.outcomes) >= 1 /\ ~c.outcomes[1].ok) =>
              /\ c.pc = "raised"
              /\ c.raised = normalizeError(c.outcomes[1].error)
              /\ ParseSettled(f) => (f.pc = "raised" /\ f.raised = c.raised)

\* the provider raised the retryable 429 error and parse raised it
C35_Witness ==
  LET f == parses[1]
      c == calls[1]
  IN /\ f.pc = "raised"
     /\ f.passed.client = "real"
     /\ c.invocations = 1
     /\ c.sleeps = 0
     /\ shouldRetry(c.outcomes[1].error)
     /\ c.outcomes[1].error.status = 429
     /\ f.raised.status = 429

\* C36: a parse call that is pending works with the client, the provider
\* and the prompt the Parser held when it started: they are what it passed
\* to the client, every request of the client call carries them, and a
\* setter that runs meanwhile changes neither the parse call nor the client
\* call.
C36_InFlightIsolated ==
  /\ [](\A p \in ParseIds :
          (parses[p].pc = "awaitClient" /\ parses[p].passed.client = "real") =>
            /\ calls[p].provider = parses[p].passed.provider
            /\ calls[p].systemPrompt = parses[p].passed.systemPrompt
            /\ \A i \in 1..Len(calls[p].requests) :
                 /\ calls[p].requests[i].systemPrompt = parses[p].passed.systemPrompt
                 /\ calls[p].requests[i].userPrompt = parses[p].input)
  /\ [][\A p \in ParseIds :
          /\ ParseBegins(p) =>
               /\ parses'[p].passed.client = parser.llmClientService
               /\ parses'[p].passed.provider = parser.llmProvider
               /\ parses'[p].passed.systemPrompt = parser.systemPrompt
          /\ (parses[p].pc = "awaitClient" /\ parser' # parser) =>
               /\ parses'[p] = parses[p]
               /\ calls'[p] = calls[p]
          /\ (parses[p].pc = "awaitClient" /\ parses'[p].pc = "awaitClient") =>
               /\ parses'[p].passed = parses[p].passed
               /\ calls'[p].provider = calls[p].provider
               /\ calls'[p].systemPrompt = calls[p].systemPrompt]_vars

\* provider, prompt and client were all swapped while the parse call awaits
\* the provider it started with
C36_Witness ==
  /\ parses[1].pc = "awaitClient"
  /\ parses[1].passed.client = "real"
  /\ calls[1].pc = "awaitProvider"
  /\ calls[1].provider = "valid"
  /\ calls[1].systemPrompt = "promptA"
  /\ parser.llmProvider = "valid2"
  /\ parser.systemPrompt = "promptB"
  /\ parser.llmClientService = "stub"

\* C37: a step that changes the Parser's system prompt changes neither its
\* provider nor its client, and is the setter of the prompt with that
\* value; likewise for the provider and for the client; a getter call and
\* a step of parse change none of the three.
C37_SettersIndependent ==
  [][/\ parser'.systemPrompt # parser.systemPrompt =>
          /\ parser' = [parser EXCEPT !.systemPrompt = setLog'.systemPrompt]
          /\ setLog' = [setLog EXCEPT !.systemPrompt = parser'.systemPrompt]
     /\ parser'.llmProvider # parser.llmProvider =>
          /\ parser' = [parser EXCEPT !.llmProvider = setLog'.llmProvider]
          /\ setLog' = [setLog EXCEPT !.llmProvider = parser'.llmProvider]
     /\ parser'.llmClientService # parser.llmClientService =>
          /\ parser' = [parser EXCEPT !.llmClientService = setLog'.llmClientService]
          /\ setLog' = [setLog EXCEPT !.llmClientService = parser'.llmClientService]
     /\ setLog'.systemPrompt # setLog.systemPrompt =>
          parser' = [parser EXCEPT !.systemPrompt = setLog'.systemPrompt]
     /\ (getterOut' # getterOut \/ parses' # parses \/ calls' # calls) =>
          parser' = parser]_vars

\* each setter ran, a getter ran and a parse call ended
C37_Witness ==
  /\ parser = [systemPrompt |-> "promptB", llmProvider |-> "valid2",
               llmClientService |-> "stub"]
  /\ getterOut.name = "llmProvider"
  /\ getterOut.value = "valid2"
  /\ parses[1].pc = "resolved"

(***************************************************************************)
(* The provider's normalization seen from the client.                      *)
(***************************************************************************)
\* C39: for the error e the vendor call failed with and the error the
\* provider raised for it, shouldRetry gives the same answer, the status is
\* the same, and so the client's normalizeError takes the same branch.
C39_RetryDecisionPreserved ==
  openai.invocation.pc = "raised" =>
    LET error == openai.invocation.vendorError
        thrown == openai.invocation.thrown
    IN /\ shouldRetry(thrown) = shouldRetry(error)
       /\ thrown.status = error.status
       /\ normalizeError(thrown).message = normalizeError(error).message
       /\ normalizeError(thrown).status = normalizeError(error).status

\* a 400 error that is retryable by its message only, wrapped
C39_Witness ==
  /\ openai.invocation.pc = "raised"
  /\ openai.invocation.vendorError.status = 400
  /\ openai.invocation.thrown # openai.invocation.vendorError
  /\ shouldRetry(openai.invocation.vendorError)
  /\ shouldRetry(openai.invocation.thrown)

(***************************************************************************)
(* An error on its way from the vendor to the caller of parse.             *)
(***************************************************************************)
\* parse raised because the vendor call of its provider invocation failed
PathFailed(p) ==
  /\ parses[p].pc = "raised"
  /\ calls[p].pc = "raised"
  /\ openai.invocation.pc = "handed"
  /\ openai.invocation.vendorError # UndefinedValue

\* 1 when the layer raised another error than the one it received
ProviderStep == IF openai.invocation.thrown = openai.invocation.vendorError THEN 0 ELSE 1

ClientStep(p) == IF calls[p].raised = openai.invocation.thrown THEN 0 ELSE 1

ParserStep(p) == IF parses[p].raised = calls[p].raised THEN 0 ELSE 1

PathSteps(p) == ProviderStep + ClientStep(p) + ParserStep(p)

\* C32 (as stated): the error parse raises after a failed vendor call is
\* the vendor's error itself or the result of one wrapping or replacement
\* on the whole way.
C32_Original == \A p \in ParseIds : PathFailed(p) => PathSteps(p) <= 1

\* C32 amended: each of the three layers wraps or replaces the error at
\* most once and the Parser never does; the error is wrapped by the
\* provider and then replaced by the client (two steps) exactly when the
\* vendor's error has status 400 or 401, wrapped once by the provider when
\* it has another status or is an API error, and raised unchanged
\* otherwise.
C32_OncePerLayer ==
  \A p \in ParseIds :
    PathFailed(p) =>
      LET error == openai.invocation.vendorError
      IN /\ ParserStep(p) = 0
         /\ PathSteps(p) = (IF error.status \in {400, 401} THEN 2
                            ELSE IF error.status # NoStatus \/ error.kind = "APIError"
                            THEN 1 ELSE 0)
         /\ ProviderStep = 1 => openai.invocation.attached = error
         /\ PathSteps(p) = 0 => parses[p].raised = error

\* a 401 API error was wrapped by the provider and replaced by the client
C32_Witness ==
  /\ PathFailed(1)
  /\ openai.invocation.vendorError.status = 401
  /\ openai.invocation.thrown.status = 401
  /\ openai.invocation.attached = openai.invocation.vendorError
  /\ calls[1].raised = NewError(InvalidApiKeyMsg)
  /\ parses[1].raised = NewError(InvalidApiKeyMsg)
  /\ PathSteps(1) = 2

(***************************************************************************)
(* The responses of POST /entries.                                         *)
(***************************************************************************)
\* C34: each request that Controller.parse settled for was answered once
\* and no other was; the answer is 200 with the parsed object exactly when
\* Controller.parse resolved; when it rejected with an HttpError the answer
\* has that error's statusCode, for any other rejection it is 500 with one
\* of the two fixed bodies and not the error's message; and once
\* Controller.parse settles, a pending request is answered.
C34_OneResponsePerRequest ==
  /\ [](/\ Len(http.log) = (IF http.pc = "awaitController"
                             THEN http.requests - 1 ELSE http.requests)
        /\ \A i \in 1..Len(http.log) :
             LET entry == http.log[i]
             IN /\ entry.request = i
                /\ entry.response.status = 200 <=> entry.ok
                /\ entry.ok => /\ entry.response.body.tag = "entry"
                               /\ entry.response.body.value = entry.value
                /\ (~entry.ok /\ entry.err.kind = "HttpError") =>
                     entry.response.status = entry.err.statusCode
                /\ (~entry.ok /\ entry.err.kind # "HttpError") =>
                     /\ entry.response.status = 500
                     /\ entry.response.body.message
                          \in {InternalServerErrorMsg, UnknowableMsg}
                     /\ entry.response.body.message # entry.err.message)
  /\ (http.pc = "awaitController") ~> (http.pc = "responded")

\* a request answered 200 and one answered 500 for an Error with a message
C34_Witness ==
  /\ http.pc = "responded"
  /\ Len(http.log) = 2
  /\ http.log[1].response.status = 200
  /\ http.log[1].response.body.value = JsonParse(ExampleJson)
  /\ http.log[2].err = MkRejection("Error", 0, InvalidApiKeyMsg)
  /\ http.log[2].response = MkHttpResponse(500, "error", JsonFail, InternalServerErrorMsg)

====
